---- MODULE Spec2Model ----
(***************************************************************************)
(* Model of the Mermaid checker of neo4j-cw-manager                        *)
(* (src/neo4j_cw_manager/tools/mermaid_checker): the validation            *)
(* orchestrator validate_code with its scratch files and child process,    *)
(* and the entry points check_mermaid_code, check_mermaid_file and         *)
(* list_mermaid_blocks that call it; and of the connection singleton of    *)
(* core/connection.py with its drivers and its environment.                *)
(*                                                                         *)
(* Text is a sequence of tokens.  A token is a run of characters that the  *)
(* code never looks inside: a keyword of the type table, a fence, a digit, *)
(* the word "line", a blank " ", a newline "\n", an opaque word "x".       *)
(* Python's None is the empty tuple and a present value x is <<x>>.        *)
(***************************************************************************)
EXTENDS Integers, Sequences, FiniteSets, TLC

(***************************************************************************)
(* Bounds of the model                                                     *)
(***************************************************************************)
\* number of distinct names the temporary-file generator can produce
MaxNames == 2

(***************************************************************************)
(* Python values                                                           *)
(***************************************************************************)
None == << >>

Some(x) == <<x>>

NL == "\n"

\* characters removed by str.strip()
Whitespace == {" ", NL}

\* a byte sequence that is not valid UTF-8
BADBYTE == "\\xff"

\* a lone surrogate code point: a str that UTF-8 cannot encode
SURROGATE == "\\ud800"

Digits == {"0", "1", "2", "3", "4", "5", "6", "7", "8", "9"}

DigitVal(d) ==
    CASE d = "0" -> 0 [] d = "1" -> 1 [] d = "2" -> 2 [] d = "3" -> 3
      [] d = "4" -> 4 [] d = "5" -> 5 [] d = "6" -> 6 [] d = "7" -> 7
      [] d = "8" -> 8 [] d = "9" -> 9

(***************************************************************************)
(* str methods                                                             *)
(***************************************************************************)
RECURSIVE lstrip(_)
lstrip(s) ==
    IF Len(s) > 0 /\ Head(s) \in Whitespace THEN lstrip(Tail(s)) ELSE s

RECURSIVE rstrip(_)
rstrip(s) ==
    IF Len(s) > 0 /\ s[Len(s)] \in Whitespace
    THEN rstrip(SubSeq(s, 1, Len(s) - 1))
    ELSE s

strip(s) == rstrip(lstrip(s))

startswith(s, prefix) ==
    Len(prefix) <= Len(s) /\ SubSeq(s, 1, Len(prefix)) = prefix

\* s.split('\n'): always at least one piece
RECURSIVE split(_)
split(s) ==
    IF \A i \in 1..Len(s) : s[i] # NL
    THEN <<s>>
    ELSE LET i == CHOOSE k \in 1..Len(s) :
                      s[k] = NL /\ \A j \in 1..(k - 1) : s[j] # NL
         IN  <<SubSeq(s, 1, i - 1)>> \o split(SubSeq(s, i + 1, Len(s)))

\* '\n'.join(lines)
RECURSIVE join(_)
join(lines) ==
    IF Len(lines) = 0 THEN << >>
    ELSE IF Len(lines) = 1 THEN lines[1]
    ELSE lines[1] \o <<NL>> \o join(Tail(lines))

\* not s  /  not s.strip()
IsBlank(s) == Len(strip(s)) = 0

(***************************************************************************)
(* parser.py: the keyword table and the classifier                         *)
(***************************************************************************)
\* as DIAGRAM_TYPES, with a tag of its own for the second state diagram
DIAGRAM_TYPES_OwnTag ==
    << << <<"flowchart">>, "flowchart" >>,
       << <<"graph">>, "flowchart" >>,
       << <<"sequenceDiagram">>, "sequenceDiagram" >>,
       << <<"classDiagram">>, "classDiagram" >>,
       << <<"stateDiagram">>, "stateDiagram" >>,
       << <<"stateDiagram", "-v2">>, "stateDiagram-v2" >>,
       << <<"erDiagram">>, "erDiagram" >>,
       << <<"gantt">>, "gantt" >>,
       << <<"pie">>, "pie" >>,
       << <<"gitGraph">>, "gitGraph" >> >>

\* the dict in insertion order: <<keyword, tag>>
DIAGRAM_TYPES ==
    << << <<"flowchart">>, "flowchart" >>,
       << <<"graph">>, "flowchart" >>,
       << <<"sequenceDiagram">>, "sequenceDiagram" >>,
       << <<"classDiagram">>, "classDiagram" >>,
       << <<"stateDiagram">>, "stateDiagram" >>,
       << <<"stateDiagram", "-v2">>, "stateDiagram" >>,
       << <<"erDiagram">>, "erDiagram" >>,
       << <<"gantt">>, "gantt" >>,
       << <<"pie">>, "pie" >>,
       << <<"gitGraph">>, "gitGraph" >> >>

\* the inner for loop: the first table entry whose keyword is a prefix
RECURSIVE MatchTable(_, _)
MatchTable(line, table) ==
    IF Len(table) = 0 THEN None
    ELSE IF startswith(line, Head(table)[1]) THEN Some(Head(table)[2])
    ELSE MatchTable(line, Tail(table))

\* as DetectInLines, going on to the next line when no keyword matches
RECURSIVE DetectInLines_AnyLine(_)
DetectInLines_AnyLine(lines) ==
    IF Len(lines) = 0 THEN None
    ELSE IF Len(strip(Head(lines))) > 0
               /\ MatchTable(strip(Head(lines)), DIAGRAM_TYPES) # None
         THEN MatchTable(strip(Head(lines)), DIAGRAM_TYPES)
         ELSE DetectInLines_AnyLine(Tail(lines))

\* the outer for loop over the lines of the code
RECURSIVE DetectInLines(_)
DetectInLines(lines) ==
    IF Len(lines) = 0 THEN None
    ELSE IF Len(strip(Head(lines))) > 0
         THEN MatchTable(strip(Head(lines)), DIAGRAM_TYPES)
         ELSE DetectInLines(Tail(lines))

_detect_diagram_type(code) == DetectInLines(split(code))

(***************************************************************************)
(* checker.py: its own classifier, over the table imported from parser.py  *)
(***************************************************************************)
\* the two for loops of checker.py, lines 162-171, over a table
RECURSIVE DetectWithTable(_, _)
DetectWithTable(lines, table) ==
    IF Len(lines) = 0 THEN None
    ELSE IF Len(strip(Head(lines))) > 0
         THEN MatchTable(strip(Head(lines)), table)
         ELSE DetectWithTable(Tail(lines), table)

checker_detect_diagram_type(code) == DetectWithTable(split(code), DIAGRAM_TYPES)

(***************************************************************************)
(* parser.py: the block extractor                                          *)
(***************************************************************************)
\* FENCE is the token of three backquotes
FENCE == "FENCE"

MERMAID_FENCE_START == <<FENCE, "mermaid">>

CODE_FENCE_END == <<FENCE>>

\* MermaidBlock(index, start_line, end_line, code, diagram_type)
MermaidBlock(index, start_line, end_line, code, diagram_type) ==
    [index |-> index, start_line |-> start_line, end_line |-> end_line,
     code |-> code, diagram_type |-> diagram_type]

\* the state of the scanner before the first line
ScanInit ==
    [blocks |-> << >>, in_mermaid_block |-> FALSE, block_start_line |-> 0,
     block_code_lines |-> << >>, block_index |-> 1]

\* as ScanLine, without the increment of block_index
ScanLine_NoIndex(st, line_num, line) ==
    LET stripped_line == strip(line) IN
    IF startswith(stripped_line, MERMAID_FENCE_START)
    THEN [st EXCEPT !.in_mermaid_block = TRUE,
                    !.block_start_line = line_num,
                    !.block_code_lines = << >>]
    ELSE IF st.in_mermaid_block
    THEN IF startswith(stripped_line, CODE_FENCE_END)
         THEN LET code == join(st.block_code_lines) IN
              [st EXCEPT !.blocks = Append(@,
                              MermaidBlock(st.block_index, st.block_start_line,
                                           line_num, code,
                                           _detect_diagram_type(code))),
                         !.in_mermaid_block = FALSE]
         ELSE [st EXCEPT !.block_code_lines = Append(@, line)]
    ELSE st

\* as ScanLine, gathering the trimmed line instead of the line
ScanLine_Stripped(st, line_num, line) ==
    LET stripped_line == strip(line) IN
    IF startswith(stripped_line, MERMAID_FENCE_START)
    THEN [st EXCEPT !.in_mermaid_block = TRUE,
                    !.block_start_line = line_num,
                    !.block_code_lines = << >>]
    ELSE IF st.in_mermaid_block
    THEN IF startswith(stripped_line, CODE_FENCE_END)
         THEN LET code == join(st.block_code_lines) IN
              [st EXCEPT !.blocks = Append(@,
                              MermaidBlock(st.block_index, st.block_start_line,
                                           line_num, code,
                                           _detect_diagram_type(code))),
                         !.in_mermaid_block = FALSE,
                         !.block_index = @ + 1]
         ELSE [st EXCEPT !.block_code_lines = Append(@, stripped_line)]
    ELSE st

\* as ScanLine, without the reset of in_mermaid_block after a block
ScanLine_KeepOpen(st, line_num, line) ==
    LET stripped_line == strip(line) IN
    IF startswith(stripped_line, MERMAID_FENCE_START)
    THEN [st EXCEPT !.in_mermaid_block = TRUE,
                    !.block_start_line = line_num,
                    !.block_code_lines = << >>]
    ELSE IF st.in_mermaid_block
    THEN IF startswith(stripped_line, CODE_FENCE_END)
         THEN LET code == join(st.block_code_lines) IN
              [st EXCEPT !.blocks = Append(@,
                              MermaidBlock(st.block_index, st.block_start_line,
                                           line_num, code,
                                           _detect_diagram_type(code))),
                         !.block_index = @ + 1]
         ELSE [st EXCEPT !.block_code_lines = Append(@, line)]
    ELSE st

\* one iteration of the for loop of _parse_lines
ScanLine(st, line_num, line) ==
    LET stripped_line == strip(line) IN
    IF startswith(stripped_line, MERMAID_FENCE_START)
    THEN [st EXCEPT !.in_mermaid_block = TRUE,
                    !.block_start_line = line_num,
                    !.block_code_lines = << >>]
    ELSE IF st.in_mermaid_block
    THEN IF startswith(stripped_line, CODE_FENCE_END)
         THEN LET code == join(st.block_code_lines) IN
              [st EXCEPT !.blocks = Append(@,
                              MermaidBlock(st.block_index, st.block_start_line,
                                           line_num, code,
                                           _detect_diagram_type(code))),
                         !.in_mermaid_block = FALSE,
                         !.block_index = @ + 1]
         ELSE [st EXCEPT !.block_code_lines = Append(@, line)]
    ELSE st

RECURSIVE ScanFrom(_, _, _)
ScanFrom(st, lines, line_num) ==
    IF line_num > Len(lines) THEN st
    ELSE ScanFrom(ScanLine(st, line_num, lines[line_num]), lines, line_num + 1)

_parse_lines(lines) == ScanFrom(ScanInit, lines, 1).blocks

(***************************************************************************)
(* checker.py: parsing the diagnostic text                          *)
(***************************************************************************)
ERROR_VALIDATION_FAILED == <<"Validation failed">>

ERROR_CLI_NOT_FOUND ==
    <<"Mermaid CLI not found. Please install @mermaid-js/mermaid-cli">>

\* ERROR_TIMEOUT_TEMPLATE.format(timeout=timeout)
ERROR_TIMEOUT_TEMPLATE(timeout) ==
    <<"Validation timed out after ", ToString(timeout), "s">>

\* re.IGNORECASE on the word "line"
IsLineWord(tok) == tok \in {"line", "Line", "LINE"}

\* the end of the run of tokens of set S that starts at position i (i - 1 if none)
RECURSIVE RunEnd(_, _, _)
RunEnd(s, i, S) ==
    IF i <= Len(s) /\ s[i] \in S THEN RunEnd(s, i + 1, S) ELSE i - 1

\* int() of a run of digits
RECURSIVE ParseInt(_)
ParseInt(ds) ==
    IF Len(ds) = 0 THEN 0
    ELSE ParseInt(SubSeq(ds, 1, Len(ds) - 1)) * 10 + DigitVal(ds[Len(ds)])

\* LINE_NUMBER_PATTERN matches at position i: line \s+ (\d+)
LineMatchAt(s, i) ==
    /\ IsLineWord(s[i])
    /\ RunEnd(s, i + 1, Whitespace) >= i + 1
    /\ RunEnd(s, RunEnd(s, i + 1, Whitespace) + 1, Digits)
           >= RunEnd(s, i + 1, Whitespace) + 1

\* LINE_NUMBER_PATTERN.search(stderr), then int(group(1))
LineSearch(s) ==
    IF \E i \in 1..Len(s) : LineMatchAt(s, i)
    THEN LET i == CHOOSE k \in 1..Len(s) :
                      LineMatchAt(s, k) /\ \A j \in 1..(k - 1) : ~LineMatchAt(s, j)
             d == RunEnd(s, i + 1, Whitespace) + 1
         IN  Some(ParseInt(SubSeq(s, d, RunEnd(s, d, Digits))))
    ELSE None

\* [line.strip() for line in lines if line.strip()]
RECURSIVE NonBlankStripped(_)
NonBlankStripped(lines) ==
    IF Len(lines) = 0 THEN << >>
    ELSE IF Len(strip(Head(lines))) > 0
         THEN <<strip(Head(lines))>> \o NonBlankStripped(Tail(lines))
         ELSE NonBlankStripped(Tail(lines))

\* as _parse_cli_error, without the generic message for blank text
_parse_cli_error_NoFallback(stderr) ==
    LET error_message == strip(stderr)
        lines == NonBlankStripped(split(error_message))
    IN  << LineSearch(stderr),
           IF Len(lines) > 0 THEN lines[1] ELSE error_message >>

\* returns <<error_line, error_message>>
_parse_cli_error(stderr) ==
    LET error_message == strip(stderr)
        lines == NonBlankStripped(split(error_message))
    IN  << LineSearch(stderr),
           IF Len(error_message) > 0
           THEN IF Len(lines) > 0 THEN lines[1] ELSE error_message
           ELSE ERROR_VALIDATION_FAILED >>

(***************************************************************************)
(* models.py, checker.py: the outcome of one validation                    *)
(***************************************************************************)
DEFAULT_TIMEOUT == 30

TEMP_FILE_SUFFIX == ".mmd"

OUTPUT_FILE_SUFFIX == ".svg"

\* ValidationResult.error_line is declared with ge=1
ErrorLineMin == 1

\* exceptions that are subclasses of ValueError: the two Unicode errors
\* and the ValidationError of pydantic
ValueErrors ==
    {"ValueError", "UnicodeEncodeError", "UnicodeDecodeError", "ValidationError"}

\* ValidationResult(valid=..., diagram_type=..., error_line=..., error_message=...):
\* the constructor checks the declared constraint of error_line
ValidationResult(valid, diagram_type, error_line, error_message) ==
    IF error_line # None /\ error_line[1] < ErrorLineMin
    THEN [raised |-> "ValidationError", value |-> None]
    ELSE [raised |-> "none",
          value |-> Some([valid |-> valid, diagram_type |-> diagram_type,
                          error_line |-> error_line,
                          error_message |-> error_message])]

\* bytes.decode('utf-8') raises on a byte sequence that is not UTF-8
Decodable(bytes) == \A i \in 1..Len(bytes) : bytes[i] # BADBYTE

\* str.encode('utf-8') raises on a lone surrogate
Encodable(text) == \A i \in 1..Len(text) : text[i] # SURROGATE

(***************************************************************************)
(* The calls of the model and what their environment can do                *)
(***************************************************************************)
\* two callers: t1 calls any entry point, t2 calls validate_code directly
Tasks == {"t1", "t2"}

KindsOf(t) ==
    IF t = "t1" THEN {"validate", "code", "file", "list"} ELSE {"validate"}

\* the fragments handed to validate_code and check_mermaid_code
Codes ==
    { << >>,
      <<" ", NL>>,
      <<"graph", " ", "x">>,
      <<NL, "x">>,
      <<"graph", SURROGATE>> }

\* the timeouts handed to validate_code by a direct caller
Timeouts == {5, DEFAULT_TIMEOUT}

\* the bytes of the documents handed to the file entry points
Docs ==
    { << >>,
      <<"x", NL, FENCE, "mermaid", NL, "flowchart", " ", "x", NL, "x", NL, FENCE>>,
      <<FENCE, "mermaid", NL, "graph", NL, FENCE, NL,
        FENCE, "mermaid", NL, "x", NL, FENCE>>,
      <<FENCE, "mermaid", NL, " ", NL, FENCE>>,
      <<FENCE, "mermaid", NL, NL, FENCE>>,
      <<BADBYTE>> }

\* what a child that exits by itself leaves: exit code, stdout, stderr
Exits ==
    { [rc |-> 0, out |-> << >>, err |-> << >>],
      [rc |-> 0, out |-> <<BADBYTE>>, err |-> << >>],
      [rc |-> 1, out |-> << >>, err |-> <<" ", NL>>],
      [rc |-> 1, out |-> << >>,
       err |-> <<"x", " ", "line", " ", "3", NL, "x">>],
      [rc |-> 1, out |-> << >>, err |-> <<"line", " ", "0">>],
      [rc |-> 1, out |-> << >>, err |-> <<BADBYTE>>] }

\* the exit status of a child that was killed
Killed == [rc |-> 0 - 9, out |-> << >>, err |-> << >>]

Names == 1..MaxNames

\* a scratch path: the generated name and the suffix
Paths == Names \X {TEMP_FILE_SUFFIX, OUTPUT_FILE_SUFFIX}

\* Path.with_suffix
with_suffix(path, suffix) == <<path[1], suffix>>

\* no file at a path
Free == << >>

EmptyFrame ==
    [code |-> << >>, timeout |-> 0, diagram_type |-> None, temp_file |-> None,
     output_file |-> None, run |-> None, exc |-> "none", result |-> None]

EmptyEntry ==
    [kind |-> "none", code |-> None, file_path |-> "", doc |-> None,
     blocks |-> << >>, i |-> 0,
     valid_count |-> 0, invalid_count |-> 0, error_details |-> << >>]

Pending == [tag |-> "pending", text |-> << >>, result |-> None, exc |-> "none"]

Return(text) == [tag |-> "return", text |-> text, result |-> None, exc |-> "none"]

ReturnResult(r) == [tag |-> "return", text |-> << >>, result |-> r, exc |-> "none"]

Raise(e) == [tag |-> "raise", text |-> << >>, result |-> None, exc |-> e]

(***************************************************************************)
(* parser.py: reading the document                                         *)
(***************************************************************************)
\* what the path of a document can lead to
DocStates ==
    {[status |-> "missing", bytes |-> << >>],
     [status |-> "nostat", bytes |-> << >>],
     [status |-> "denied", bytes |-> << >>]}
        \cup {[status |-> "ok", bytes |-> b] : b \in Docs}

\* as _read_file_content, with a decode failure reported as a missing file
_read_file_content_Mixed(doc) ==
    IF doc.status = "missing" \/ (doc.status = "ok" /\ ~Decodable(doc.bytes))
    THEN [raised |-> "FileNotFoundError", msg |-> "File not found: ",
          content |-> << >>]
    ELSE IF doc.status = "nostat"
    THEN [raised |-> "PermissionError", msg |-> "[Errno 13] Permission denied: ",
          content |-> << >>]
    ELSE IF doc.status = "denied"
    THEN [raised |-> "IOError", msg |-> "Failed to read file: ",
          content |-> << >>]
    ELSE [raised |-> "none", msg |-> "", content |-> doc.bytes]

\* _read_file_content: the text, or the exception and its message.  The
\* status of a document is missing (stat finds nothing), nostat (stat is
\* refused, and Path.exists lets that PermissionError through), denied
\* (the read fails) or ok.
_read_file_content(doc) ==
    IF doc.status = "missing"
    THEN [raised |-> "FileNotFoundError", msg |-> "File not found: ",
          content |-> << >>]
    ELSE IF doc.status = "nostat"
    THEN [raised |-> "PermissionError", msg |-> "[Errno 13] Permission denied: ",
          content |-> << >>]
    ELSE IF doc.status = "denied"
    THEN [raised |-> "IOError", msg |-> "Failed to read file: ",
          content |-> << >>]
    ELSE IF ~Decodable(doc.bytes)
    THEN [raised |-> "IOError", msg |-> "Failed to decode file as UTF-8: ",
          content |-> << >>]
    ELSE [raised |-> "none", msg |-> "", content |-> doc.bytes]

extract_mermaid_blocks(doc) ==
    LET r == _read_file_content(doc) IN
    [raised |-> r.raised, msg |-> r.msg,
     blocks |-> IF r.raised = "none" THEN _parse_lines(split(r.content))
                                     ELSE << >>]

\* every input the model draws from
FullScope == [codes |-> Codes, timeouts |-> Timeouts, docs |-> DocStates,
              exits |-> Exits]

\* the inputs of the runs with two callers: one fragment, one document with
\* two blocks, a child that succeeds or reports a line
PairScope ==
    [codes |-> {<<"graph", " ", "x">>},
     timeouts |-> {5},
     docs |-> {[status |-> "ok",
                bytes |-> <<FENCE, "mermaid", NL, "graph", NL, FENCE, NL,
                            FENCE, "mermaid", NL, "x", NL, FENCE>>]},
     exits |-> {[rc |-> 0, out |-> << >>, err |-> << >>],
                [rc |-> 1, out |-> << >>,
                 err |-> <<"x", " ", "line", " ", "3", NL, "x">>]}]

VARIABLES
    scope,     \* the inputs this run draws from (never changes)
    pc,        \* where each caller is
    entry,     \* the locals of the entry point each caller runs
    outcome,   \* what the entry point gave back to its caller
    frame,     \* the locals of the validate_code call in progress
    procs,     \* the child processes each caller has started
    fs,        \* the scratch directory: the owner of each path, or Free
    calls,     \* history: one record per validate_code call
    scan,      \* the activation of _parse_lines that is run line by line
    detect,    \* the activation of _detect_diagram_type that is run alone
    _instance, \* the class attribute Neo4jConnection._instance
    objects,   \* the Neo4jConnection objects made so far: _driver, _config
    drivers,   \* the Driver objects made so far: open or closed
    environ,   \* os.environ after load_dotenv
    got        \* what the last read of the driver property gave

\* the state of core/connection.py
connvars == <<_instance, objects, drivers, environ, got>>

vars ==
    <<scope, pc, entry, outcome, frame, procs, fs, calls, scan, detect, connvars>>

\* the positions inside validate_code
VPcs ==
    {"v_entry", "v_create", "v_spawn", "v_wait", "v_reap", "v_outclean",
     "v_body", "v_except", "v_finally"}

\* the validate_code call caller t is in or was last in
Cur(t) == Len(calls[t])

Me(t) == <<t, Cur(t)>>

NewCall(code, timeout, block) ==
    [code |-> code, timeout |-> timeout, block |-> block, created |-> None,
     written |-> FALSE, attempts |-> 0, started |-> 0, fault |-> "none",
     faultAt |-> "none", result |-> None, raised |-> "none"]

(***************************************************************************)
(* checker.py: validate_code, _create_temp_file, _run_mmdc                 *)
(***************************************************************************)
\* the caller side of `await validate_code(code, timeout)`
StartValidate(t, code, timeout, block) ==
    /\ frame' = [frame EXCEPT ![t] = [EmptyFrame EXCEPT !.code = code,
                                                        !.timeout = timeout]]
    /\ calls' = [calls EXCEPT ![t] = Append(@, NewCall(code, timeout, block))]
    /\ pc' = [pc EXCEPT ![t] = "v_entry"]

\* an exception leaves the try block of validate_code
Throw(t, e, at) ==
    /\ frame' = [frame EXCEPT ![t].exc = e]
    /\ calls' = [calls EXCEPT ![t][Cur(t)].fault = e,
                              ![t][Cur(t)].faultAt = at]

\* as V_Entry, without the precondition
V_Entry_NoCheck(t) ==
    /\ pc[t] = "v_entry"
    /\ frame' = [frame EXCEPT
           ![t].diagram_type = checker_detect_diagram_type(frame[t].code)]
    /\ pc' = [pc EXCEPT ![t] = "v_create"]
    /\ UNCHANGED <<scope, connvars, scan, detect, entry, outcome, procs, fs, calls>>

\* lines 67-73: the precondition, then the classification
V_Entry(t) ==
    /\ pc[t] = "v_entry"
    /\ IF IsBlank(frame[t].code)
       THEN /\ frame' = [frame EXCEPT ![t].exc = "ValueError"]
            /\ calls' = [calls EXCEPT ![t][Cur(t)].fault = "ValueError",
                                      ![t][Cur(t)].faultAt = "entry",
                                      ![t][Cur(t)].raised = "ValueError"]
            /\ pc' = [pc EXCEPT ![t] = "v_ret"]
       ELSE /\ frame' = [frame EXCEPT
                   ![t].diagram_type = checker_detect_diagram_type(frame[t].code)]
            /\ pc' = [pc EXCEPT ![t] = "v_create"]
            /\ UNCHANGED calls
    /\ UNCHANGED <<scope, connvars, scan, detect, entry, outcome, procs, fs>>

\* as FreeNames, for a generator that does not look at the directory
FreeNames_Any == Names

\* the names NamedTemporaryFile can take: it opens with O_EXCL
FreeNames == {n \in Names : fs[<<n, TEMP_FILE_SUFFIX>>] = Free}

\* faults of NamedTemporaryFile before a file exists
CreateFaults ==
    {"FileNotFoundError", "PermissionError"}
        \cup (IF FreeNames = {} THEN {"FileExistsError"} ELSE {})

\* faults of f.write(code) and of the flush when the file is closed
WriteFaults(code) ==
    IF Encodable(code) THEN {"OSError"} ELSE {"UnicodeEncodeError"}

\* _create_temp_file, called at line 80
V_Create(t) ==
    /\ pc[t] = "v_create"
    /\ \/ \E e \in CreateFaults :
            /\ Throw(t, e, "create")
            /\ pc' = [pc EXCEPT ![t] = "v_except"]
            /\ UNCHANGED fs
       \/ \E n \in FreeNames :
            LET path == <<n, TEMP_FILE_SUFFIX>> IN
            /\ fs' = [fs EXCEPT ![path] = Me(t)]
            /\ \/ /\ Encodable(frame[t].code)
                  /\ frame' = [frame EXCEPT ![t].temp_file = Some(path)]
                  /\ calls' = [calls EXCEPT ![t][Cur(t)].created = Some(path),
                                            ![t][Cur(t)].written = TRUE]
                  /\ pc' = [pc EXCEPT ![t] = "v_spawn"]
               \/ \E e \in WriteFaults(frame[t].code) :
                  /\ frame' = [frame EXCEPT ![t].exc = e]
                  /\ calls' = [calls EXCEPT ![t][Cur(t)].created = Some(path),
                                            ![t][Cur(t)].fault = e,
                                            ![t][Cur(t)].faultAt = "write"]
                  /\ pc' = [pc EXCEPT ![t] = "v_except"]
    /\ UNCHANGED <<scope, connvars, scan, detect, entry, outcome, procs>>

\* a child process as the operating system sees it
NewChild(t, input, output) ==
    [call |-> Cur(t), input |-> input, output |-> output,
     state |-> "running", status |-> None]

\* what asyncio.create_subprocess_exec('mmdc', ...) can meet on the host
ToolStates == {"ok", "missing", "noexec"}

\* as V_Spawn, with one more try when the tool is not found
V_Spawn_Retry(t) ==
    /\ pc[t] = "v_spawn"
    /\ LET temp_file == frame[t].temp_file[1]
           output_file == with_suffix(temp_file, OUTPUT_FILE_SUFFIX)
       IN  \E tool \in ToolStates :
             IF tool = "ok"
             THEN /\ procs' = [procs EXCEPT
                         ![t] = Append(@, NewChild(t, temp_file, output_file))]
                  /\ frame' = [frame EXCEPT ![t].output_file = Some(output_file)]
                  /\ calls' = [calls EXCEPT ![t][Cur(t)].attempts = @ + 1,
                                            ![t][Cur(t)].started = @ + 1]
                  /\ pc' = [pc EXCEPT ![t] = "v_wait"]
             ELSE IF tool = "missing" /\ calls[t][Cur(t)].attempts = 0
             THEN /\ calls' = [calls EXCEPT ![t][Cur(t)].attempts = @ + 1]
                  /\ UNCHANGED <<pc, frame, procs>>
             ELSE LET e == IF tool = "missing" THEN "FileNotFoundError"
                                               ELSE "PermissionError" IN
                  /\ frame' = [frame EXCEPT ![t].output_file = Some(output_file),
                                            ![t].exc = e]
                  /\ calls' = [calls EXCEPT ![t][Cur(t)].attempts = @ + 1,
                                            ![t][Cur(t)].fault = e,
                                            ![t][Cur(t)].faultAt = "spawn"]
                  /\ pc' = [pc EXCEPT ![t] = "v_outclean"]
                  /\ UNCHANGED procs
    /\ UNCHANGED <<scope, connvars, scan, detect, entry, outcome, fs>>

\* lines 230-242: the output path, then the spawn
V_Spawn(t) ==
    /\ pc[t] = "v_spawn"
    /\ LET temp_file == frame[t].temp_file[1]
           output_file == with_suffix(temp_file, OUTPUT_FILE_SUFFIX)
       IN  \E tool \in ToolStates :
             IF tool = "ok"
             THEN /\ procs' = [procs EXCEPT
                         ![t] = Append(@, NewChild(t, temp_file, output_file))]
                  /\ frame' = [frame EXCEPT ![t].output_file = Some(output_file)]
                  /\ calls' = [calls EXCEPT ![t][Cur(t)].attempts = @ + 1,
                                            ![t][Cur(t)].started = @ + 1]
                  /\ pc' = [pc EXCEPT ![t] = "v_wait"]
             ELSE LET e == IF tool = "missing" THEN "FileNotFoundError"
                                               ELSE "PermissionError" IN
                  /\ frame' = [frame EXCEPT ![t].output_file = Some(output_file),
                                            ![t].exc = e]
                  /\ calls' = [calls EXCEPT ![t][Cur(t)].attempts = @ + 1,
                                            ![t][Cur(t)].fault = e,
                                            ![t][Cur(t)].faultAt = "spawn"]
                  /\ pc' = [pc EXCEPT ![t] = "v_outclean"]
                  /\ UNCHANGED procs
    /\ UNCHANGED <<scope, connvars, scan, detect, entry, outcome, fs>>

\* the child of the validate_code call in progress
CurChild(t) == procs[t][Len(procs[t])]

SetChild(t, k, state, status) ==
    procs' = [procs EXCEPT ![t][k].state = state, ![t][k].status = status]

\* mmdc writes the rendering to its --output path
ChildWritesOutput(t, k) ==
    /\ procs[t][k].state = "running"
    /\ fs[procs[t][k].output] = Free
    /\ fs' = [fs EXCEPT ![procs[t][k].output] = <<t, procs[t][k].call>>]
    /\ UNCHANGED <<scope, connvars, scan, detect, pc, entry, outcome, frame, procs, calls>>

\* mmdc exits by itself
ChildExits(t, k) ==
    /\ procs[t][k].state = "running"
    /\ \E x \in scope.exits : SetChild(t, k, "exited", Some(x))
    /\ UNCHANGED <<scope, connvars, scan, detect, pc, entry, outcome, frame, fs, calls>>

\* a killed mmdc is gone
ChildDies(t, k) ==
    /\ procs[t][k].state = "killed"
    /\ SetChild(t, k, "exited", Some(Killed))
    /\ UNCHANGED <<scope, connvars, scan, detect, pc, entry, outcome, frame, fs, calls>>

\* as V_Communicate, returning once the pipes are read, the child still running
V_Communicate_Early(t) ==
    /\ pc[t] = "v_wait"
    /\ CurChild(t).state \in {"running", "exited"}
    /\ \E x \in scope.exits :
         /\ CurChild(t).state = "exited" => x = CurChild(t).status[1]
         /\ IF Decodable(x.out) /\ Decodable(x.err)
            THEN /\ frame' = [frame EXCEPT ![t].run = Some([exit_code |-> x.rc,
                                                           stderr |-> x.err])]
                 /\ UNCHANGED calls
            ELSE Throw(t, "UnicodeDecodeError", "decode")
    /\ pc' = [pc EXCEPT ![t] = "v_outclean"]
    /\ UNCHANGED <<scope, connvars, scan, detect, entry, outcome, procs, fs>>

\* lines 248-254: communicate() finished before the deadline
V_Communicate(t) ==
    /\ pc[t] = "v_wait"
    /\ CurChild(t).state = "exited"
    /\ LET x == CurChild(t).status[1] IN
       IF Decodable(x.out) /\ Decodable(x.err)
       THEN /\ frame' = [frame EXCEPT ![t].run = Some([exit_code |-> x.rc,
                                                      stderr |-> x.err])]
            /\ UNCHANGED calls
       ELSE Throw(t, "UnicodeDecodeError", "decode")
    /\ pc' = [pc EXCEPT ![t] = "v_outclean"]
    /\ UNCHANGED <<scope, connvars, scan, detect, entry, outcome, procs, fs>>

\* as V_Timeout, without process.kill()
V_Timeout_NoKill(t) ==
    /\ pc[t] = "v_wait"
    /\ CurChild(t).state = "running"
    /\ pc' = [pc EXCEPT ![t] = "v_reap"]
    /\ UNCHANGED <<scope, connvars, scan, detect, entry, outcome, frame, procs, fs, calls>>

\* lines 256-259: the deadline fires first, the child is killed
V_Timeout(t) ==
    /\ pc[t] = "v_wait"
    /\ CurChild(t).state = "running"
    /\ SetChild(t, Len(procs[t]), "killed", None)
    /\ pc' = [pc EXCEPT ![t] = "v_reap"]
    /\ UNCHANGED <<scope, connvars, scan, detect, entry, outcome, frame, fs, calls>>

\* as V_Reap, without await process.wait()
V_Reap_NoWait(t) ==
    /\ pc[t] = "v_reap"
    /\ Throw(t, "TimeoutError", "wait")
    /\ pc' = [pc EXCEPT ![t] = "v_outclean"]
    /\ UNCHANGED <<scope, connvars, scan, detect, entry, outcome, procs, fs>>

\* lines 260-261: await process.wait(), then re-raise
V_Reap(t) ==
    /\ pc[t] = "v_reap"
    /\ CurChild(t).state = "exited"
    /\ Throw(t, "TimeoutError", "wait")
    /\ pc' = [pc EXCEPT ![t] = "v_outclean"]
    /\ UNCHANGED <<scope, connvars, scan, detect, entry, outcome, procs, fs>>

\* the task that awaits the child is cancelled
V_Cancel(t) ==
    /\ pc[t] \in {"v_wait", "v_reap"}
    /\ Throw(t, "CancelledError", pc[t])
    /\ pc' = [pc EXCEPT ![t] = "v_outclean"]
    /\ UNCHANGED <<scope, connvars, scan, detect, entry, outcome, procs, fs>>

\* lines 263-267: the finally block of _run_mmdc
V_OutClean(t) ==
    /\ pc[t] = "v_outclean"
    /\ fs' = [fs EXCEPT ![frame[t].output_file[1]] = Free]
    /\ pc' = [pc EXCEPT ![t] =
                 IF frame[t].exc = "none" THEN "v_body" ELSE "v_except"]
    /\ UNCHANGED <<scope, connvars, scan, detect, entry, outcome, frame, procs, calls>>

\* lines 89-106: the exit code decides what validate_code builds
Interpret(f) ==
    IF f.run[1].exit_code = 0
    THEN ValidationResult(TRUE, f.diagram_type, None, None)
    ELSE ValidationResult(FALSE, f.diagram_type,
                          _parse_cli_error(f.run[1].stderr)[1],
                          Some(_parse_cli_error(f.run[1].stderr)[2]))

\* lines 85-106: _run_mmdc has returned; the result is built or the
\* constructor raises
V_Interpret(t) ==
    /\ pc[t] = "v_body"
    /\ \E r \in {Interpret(frame[t])} :
         /\ frame' = [frame EXCEPT ![t].result = r.value, ![t].exc = r.raised]
         /\ calls' = [calls EXCEPT ![t][Cur(t)].fault = r.raised,
                                   ![t][Cur(t)].faultAt =
                                       IF r.raised = "none" THEN "none"
                                                            ELSE "result"]
    /\ pc' = [pc EXCEPT ![t] = "v_finally"]
    /\ UNCHANGED <<scope, connvars, scan, detect, entry, outcome, procs, fs>>

\* as V_Except, keeping the detected diagram type in both outcomes
V_Except_KeepType(t) ==
    /\ pc[t] = "v_except"
    /\ frame' = [frame EXCEPT ![t] =
           IF frame[t].exc = "FileNotFoundError"
           THEN [@ EXCEPT !.exc = "none",
                          !.result = ValidationResult(FALSE, frame[t].diagram_type,
                                         None, Some(ERROR_CLI_NOT_FOUND)).value]
           ELSE IF frame[t].exc = "TimeoutError"
           THEN [@ EXCEPT !.exc = "none",
                          !.result = ValidationResult(FALSE, frame[t].diagram_type,
                               None,
                               Some(ERROR_TIMEOUT_TEMPLATE(frame[t].timeout))).value]
           ELSE @]
    /\ pc' = [pc EXCEPT ![t] = "v_finally"]
    /\ UNCHANGED <<scope, connvars, scan, detect, entry, outcome, procs, fs, calls>>

\* lines 108-128: the two except clauses
V_Except(t) ==
    /\ pc[t] = "v_except"
    /\ frame' = [frame EXCEPT ![t] =
           IF frame[t].exc = "FileNotFoundError"
           THEN [@ EXCEPT !.exc = "none",
                          !.result = ValidationResult(FALSE, None, None,
                                         Some(ERROR_CLI_NOT_FOUND)).value]
           ELSE IF frame[t].exc = "TimeoutError"
           THEN [@ EXCEPT !.exc = "none",
                          !.result = ValidationResult(FALSE, None, None,
                               Some(ERROR_TIMEOUT_TEMPLATE(frame[t].timeout))).value]
           ELSE @]
    /\ pc' = [pc EXCEPT ![t] = "v_finally"]
    /\ UNCHANGED <<scope, connvars, scan, detect, entry, outcome, procs, fs, calls>>

\* lines 130-134: the finally block of validate_code, then the call ends
V_Finally(t) ==
    /\ pc[t] = "v_finally"
    /\ fs' = IF frame[t].temp_file # None /\ fs[frame[t].temp_file[1]] # Free
             THEN [fs EXCEPT ![frame[t].temp_file[1]] = Free]
             ELSE fs
    /\ calls' = [calls EXCEPT ![t][Cur(t)].result = frame[t].result,
                              ![t][Cur(t)].raised = frame[t].exc]
    /\ pc' = [pc EXCEPT ![t] = "v_ret"]
    /\ UNCHANGED <<scope, connvars, scan, detect, entry, outcome, frame, procs>>

(***************************************************************************)
(* __init__.py: the report strings                                         *)
(***************************************************************************)
ERROR_CODE_REQUIRED == <<"Error: Code is required">>

ERROR_FILE_NOT_FOUND(path) == <<"Error: File not found: ", path>>

ERROR_FILE_READ(error) == <<"Error: Failed to read file: ", error>>

MSG_NO_BLOCKS == <<"No Mermaid blocks found in this file.">>

MSG_ALL_VALID == <<"All Mermaid blocks are syntactically correct.">>

\* an optional string inside an f-string
Fmt(opt) == IF opt = None THEN "None" ELSE opt[1]

\* lines 82-92 of check_mermaid_code
FormatCodeResult(result) ==
    IF result.valid
    THEN <<"Valid: true", NL, "Diagram type: ", Fmt(result.diagram_type)>>
    ELSE IF result.error_line # None
    THEN <<"Valid: false", NL, "Error at line ",
           ToString(result.error_line[1]), ": ">>
             \o (IF result.error_message = None THEN <<"None">>
                 ELSE result.error_message[1])
    ELSE <<"Valid: false", NL, "Error: ">>
             \o (IF result.error_message = None THEN <<"None">>
                 ELSE result.error_message[1])

BlockErrorHead(block) ==
    <<"Error in block ", ToString(block.index), " (line ",
      ToString(block.start_line), "):", NL, "  ">>

_format_block_error(block, result) ==
    BlockErrorHead(block)
        \o (IF result.error_message = None \/ Len(result.error_message[1]) = 0
            THEN <<"Unknown error">>
            ELSE result.error_message[1])

\* lines 163-165: the entry of a block whose validation raised ValueError
EmptyBlockError(block) == BlockErrorHead(block) \o <<"Empty mermaid block">>

_format_file_result(file_path, total_blocks, valid_count, invalid_count, error_details) ==
    join(<< <<"Checked: ", file_path>>,
            <<"Total blocks: ", ToString(total_blocks)>>,
            <<"Valid: ", ToString(valid_count)>>,
            <<"Invalid: ", ToString(invalid_count)>>,
            << >> >>
         \o (IF invalid_count = 0 THEN <<MSG_ALL_VALID>> ELSE error_details))

\* the lines of one block in the listing, with the empty line after it
ListEntry(block) ==
    << <<"Block ", ToString(block.index), " (line ",
         ToString(block.start_line), "-", ToString(block.end_line), "):">>,
       <<"  Type: ", IF block.diagram_type = None THEN "unknown"
                     ELSE block.diagram_type[1]>>,
       <<"  Lines: ", ToString(IF Len(block.code) = 0 THEN 0
                               ELSE Len(split(block.code)))>>,
       << >> >>

RECURSIVE ListEntries(_)
ListEntries(blocks) ==
    IF Len(blocks) = 0 THEN << >>
    ELSE ListEntry(Head(blocks)) \o ListEntries(Tail(blocks))

_format_list_result(file_path, blocks) ==
    LET lines == << <<"File: ", file_path>>,
                    <<"Total blocks: ", ToString(Len(blocks))>>,
                    << >> >> \o ListEntries(blocks)
    IN  join(IF Len(lines[Len(lines)]) = 0
             THEN SubSeq(lines, 1, Len(lines) - 1)
             ELSE lines)

(***************************************************************************)
(* The callers of validate_code                                            *)
(***************************************************************************)
Finish(t, o) ==
    /\ outcome' = [outcome EXCEPT ![t] = o]
    /\ pc' = [pc EXCEPT ![t] = "done"]

\* a direct caller: await validate_code(code, timeout)
CallValidate(t) ==
    /\ pc[t] = "idle"
    /\ "validate" \in KindsOf(t)
    /\ \E code \in scope.codes, timeout \in scope.timeouts :
           StartValidate(t, code, timeout, 0)
    /\ entry' = [entry EXCEPT ![t].kind = "validate"]
    /\ UNCHANGED <<scope, connvars, scan, detect, outcome, procs, fs>>

\* the direct caller gets the result or the exception
ValidateReturns(t) ==
    /\ pc[t] = "v_ret"
    /\ entry[t].kind = "validate"
    /\ Finish(t, IF frame[t].exc = "none" THEN ReturnResult(frame[t].result)
                                          ELSE Raise(frame[t].exc))
    /\ frame' = [frame EXCEPT ![t] = EmptyFrame]
    /\ UNCHANGED <<scope, connvars, scan, detect, entry, procs, fs, calls>>

\* check_mermaid_code up to its await (lines 69-75)
CallCheckCode(t) ==
    /\ pc[t] = "idle"
    /\ "code" \in KindsOf(t)
    /\ \E code \in {None} \cup {Some(c) : c \in scope.codes} :
         /\ entry' = [entry EXCEPT ![t].kind = "code", ![t].code = code]
         /\ IF code = None \/ IsBlank(code[1])
            THEN /\ Finish(t, Return(ERROR_CODE_REQUIRED))
                 /\ UNCHANGED <<frame, calls>>
            ELSE /\ StartValidate(t, code[1], DEFAULT_TIMEOUT, 0)
                 /\ UNCHANGED outcome
    /\ UNCHANGED <<scope, connvars, scan, detect, procs, fs>>

\* check_mermaid_code after its await (lines 76-92)
CheckCodeReturns(t) ==
    /\ pc[t] = "v_ret"
    /\ entry[t].kind = "code"
    /\ Finish(t, IF frame[t].exc \in ValueErrors THEN Return(ERROR_CODE_REQUIRED)
                 ELSE IF frame[t].exc # "none" THEN Raise(frame[t].exc)
                 ELSE Return(FormatCodeResult(frame[t].result[1])))
    /\ frame' = [frame EXCEPT ![t] = EmptyFrame]
    /\ UNCHANGED <<scope, connvars, scan, detect, entry, procs, fs, calls>>

\* the for loop of check_mermaid_file reaches block i, or the end (line 169)
FileNext(t, e, i) ==
    IF i > Len(e.blocks)
    THEN /\ Finish(t, Return(_format_file_result(e.file_path, Len(e.blocks),
                        e.valid_count, e.invalid_count, e.error_details)))
         /\ frame' = [frame EXCEPT ![t] = EmptyFrame]
         /\ entry' = [entry EXCEPT ![t] = [e EXCEPT !.i = i]]
         /\ UNCHANGED calls
    ELSE /\ StartValidate(t, e.blocks[i].code, DEFAULT_TIMEOUT,
                          e.blocks[i].index)
         /\ entry' = [entry EXCEPT ![t] = [e EXCEPT !.i = i]]
         /\ UNCHANGED outcome

\* check_mermaid_file up to its first await (lines 126-150)
CallCheckFile(t) ==
    /\ pc[t] = "idle"
    /\ "file" \in KindsOf(t)
    /\ \E doc \in scope.docs :
         LET x == extract_mermaid_blocks(doc)
             file_path == "doc.md"
             e == [EmptyEntry EXCEPT !.kind = "file", !.file_path = file_path,
                                     !.doc = Some(doc), !.blocks = x.blocks]
         IN  IF x.raised = "FileNotFoundError"
             THEN /\ Finish(t, Return(ERROR_FILE_NOT_FOUND(file_path)))
                  /\ entry' = [entry EXCEPT ![t] = e]
                  /\ UNCHANGED <<frame, calls>>
             ELSE IF x.raised # "none"
             THEN /\ Finish(t, Return(ERROR_FILE_READ(x.msg)))
                  /\ entry' = [entry EXCEPT ![t] = e]
                  /\ UNCHANGED <<frame, calls>>
             ELSE IF Len(x.blocks) = 0
             THEN /\ Finish(t, Return(<<"Checked: ", file_path, NL,
                                        "Total blocks: 0", NL, NL>>
                                          \o MSG_NO_BLOCKS))
                  /\ entry' = [entry EXCEPT ![t] = e]
                  /\ UNCHANGED <<frame, calls>>
             ELSE FileNext(t, e, 1)
    /\ UNCHANGED <<scope, connvars, scan, detect, procs, fs>>

\* as CheckFileReturns, with each error entry put before the earlier ones
CheckFileReturns_Prepend(t) ==
    /\ pc[t] = "v_ret"
    /\ entry[t].kind = "file"
    /\ LET e == entry[t]
           block == e.blocks[e.i]
       IN  IF frame[t].exc \in ValueErrors
           THEN FileNext(t, [e EXCEPT !.invalid_count = @ + 1,
                                      !.error_details =
                                          <<EmptyBlockError(block)>> \o @],
                         e.i + 1)
           ELSE IF frame[t].exc # "none"
           THEN /\ Finish(t, Raise(frame[t].exc))
                /\ frame' = [frame EXCEPT ![t] = EmptyFrame]
                /\ UNCHANGED <<entry, calls>>
           ELSE IF frame[t].result[1].valid
           THEN FileNext(t, [e EXCEPT !.valid_count = @ + 1], e.i + 1)
           ELSE FileNext(t, [e EXCEPT !.invalid_count = @ + 1,
                                      !.error_details =
                                          <<_format_block_error(block,
                                              frame[t].result[1])>> \o @],
                         e.i + 1)
    /\ UNCHANGED <<scope, connvars, scan, detect, procs, fs>>

\* as CheckFileReturns, with a block whose validation raised ValueError
\* skipped instead of counted
CheckFileReturns_SkipEmpty(t) ==
    /\ pc[t] = "v_ret"
    /\ entry[t].kind = "file"
    /\ LET e == entry[t]
           block == e.blocks[e.i]
       IN  IF frame[t].exc \in ValueErrors
           THEN FileNext(t, e, e.i + 1)
           ELSE IF frame[t].exc # "none"
           THEN /\ Finish(t, Raise(frame[t].exc))
                /\ frame' = [frame EXCEPT ![t] = EmptyFrame]
                /\ UNCHANGED <<entry, calls>>
           ELSE IF frame[t].result[1].valid
           THEN FileNext(t, [e EXCEPT !.valid_count = @ + 1], e.i + 1)
           ELSE FileNext(t, [e EXCEPT !.invalid_count = @ + 1,
                                      !.error_details = Append(@,
                                          _format_block_error(block,
                                              frame[t].result[1]))],
                         e.i + 1)
    /\ UNCHANGED <<scope, connvars, scan, detect, procs, fs>>

\* the body of the for loop after its await (lines 151-165), then the next
\* iteration
CheckFileReturns(t) ==
    /\ pc[t] = "v_ret"
    /\ entry[t].kind = "file"
    /\ LET e == entry[t]
           block == e.blocks[e.i]
       IN  IF frame[t].exc \in ValueErrors
           THEN FileNext(t, [e EXCEPT !.invalid_count = @ + 1,
                                      !.error_details =
                                          Append(@, EmptyBlockError(block))],
                         e.i + 1)
           ELSE IF frame[t].exc # "none"
           THEN /\ Finish(t, Raise(frame[t].exc))
                /\ frame' = [frame EXCEPT ![t] = EmptyFrame]
                /\ UNCHANGED <<entry, calls>>
           ELSE IF frame[t].result[1].valid
           THEN FileNext(t, [e EXCEPT !.valid_count = @ + 1], e.i + 1)
           ELSE FileNext(t, [e EXCEPT !.invalid_count = @ + 1,
                                      !.error_details = Append(@,
                                          _format_block_error(block,
                                              frame[t].result[1]))],
                         e.i + 1)
    /\ UNCHANGED <<scope, connvars, scan, detect, procs, fs>>

\* list_mermaid_blocks (lines 271-289)
CallListBlocks(t) ==
    /\ pc[t] = "idle"
    /\ "list" \in KindsOf(t)
    /\ \E doc \in scope.docs :
         LET x == extract_mermaid_blocks(doc)
             file_path == "doc.md"
         IN  /\ entry' = [entry EXCEPT ![t] =
                    [EmptyEntry EXCEPT !.kind = "list", !.file_path = file_path,
                                       !.doc = Some(doc), !.blocks = x.blocks]]
             /\ Finish(t,
                  IF x.raised = "FileNotFoundError"
                  THEN Return(ERROR_FILE_NOT_FOUND(file_path))
                  ELSE IF x.raised # "none"
                  THEN Return(ERROR_FILE_READ(x.msg))
                  ELSE IF Len(x.blocks) = 0
                  THEN Return(<<"File: ", file_path, NL, "Total blocks: 0",
                                NL, NL>> \o MSG_NO_BLOCKS)
                  ELSE Return(_format_list_result(file_path, x.blocks)))
    /\ UNCHANGED <<scope, connvars, scan, detect, frame, procs, fs, calls>>

(***************************************************************************)
(* The specifications                                                      *)
(***************************************************************************)
InitWith(active, inputs) ==
    /\ scope = inputs
    /\ pc = [t \in Tasks |-> IF t \in active THEN "idle" ELSE "off"]
    /\ entry = [t \in Tasks |-> EmptyEntry]
    /\ outcome = [t \in Tasks |-> Pending]
    /\ frame = [t \in Tasks |-> EmptyFrame]
    /\ procs = [t \in Tasks |-> << >>]
    /\ fs = [p \in Paths |-> Free]
    /\ calls = [t \in Tasks |-> << >>]

\* no activation of the scanner or of the classifier is run by itself
NoScan == [status |-> "off", lines |-> << >>, line_num |-> 0, st |-> ScanInit]

NoDetect ==
    [status |-> "off", code |-> << >>, result |-> None, checker_result |-> None]

\* no read of the driver property yet
NoRead == [current |-> FALSE, raised |-> "unread", closed |-> FALSE]

\* the connection module is loaded and nothing of it is called
NoConnection ==
    /\ _instance = None
    /\ objects = << >>
    /\ drivers = << >>
    /\ environ = [complete |-> FALSE, NEO4J_URI |-> "bolt://db",
                  NEO4J_DATABASE |-> None]
    /\ got = NoRead

\* one caller of an entry point
Init ==
    /\ InitWith({"t1"}, FullScope)
    /\ scan = NoScan
    /\ detect = NoDetect
    /\ NoConnection

\* the same caller and a second one that calls validate_code meanwhile
InitPair ==
    /\ InitWith(Tasks, PairScope)
    /\ scan = NoScan
    /\ detect = NoDetect
    /\ NoConnection

\* the steps of a validate_code call
ValidateStep(t) ==
    \/ V_Entry(t)
    \/ V_Create(t)
    \/ V_Spawn(t)
    \/ V_Communicate(t)
    \/ V_Timeout(t)
    \/ V_Reap(t)
    \/ V_OutClean(t)
    \/ V_Interpret(t)
    \/ V_Except(t)
    \/ V_Finally(t)

\* the steps of the callers
CallerStep(t) ==
    \/ CallValidate(t)
    \/ CallCheckCode(t)
    \/ CallCheckFile(t)
    \/ CallListBlocks(t)
    \/ ValidateReturns(t)
    \/ CheckCodeReturns(t)
    \/ CheckFileReturns(t)

Next ==
    \/ \E t \in Tasks : CallerStep(t)
    \/ \E t \in Tasks : ValidateStep(t)
    \/ \E t \in Tasks : V_Cancel(t)
    \/ \E t \in Tasks : \E k \in 1..Len(procs[t]) : ChildWritesOutput(t, k)
    \/ \E t \in Tasks : \E k \in 1..Len(procs[t]) : ChildExits(t, k)
    \/ \E t \in Tasks : \E k \in 1..Len(procs[t]) : ChildDies(t, k)

Spec == Init /\ [][Next]_vars

SpecPair == InitPair /\ [][Next]_vars

\* what the scheduling guarantees: the event loop runs every step of
\* validate_code that can run, the deadline timer fires, and a killed child
\* exits; a child need not exit by itself and nobody need cancel
FairSpec ==
    /\ Spec
    /\ \A t \in Tasks : WF_vars(ValidateStep(t))
    /\ \A t \in Tasks : WF_vars(\E k \in 1..Len(procs[t]) : ChildDies(t, k))

(***************************************************************************)
(* parser.py run by itself: _parse_lines one line at a time, and           *)
(* _detect_diagram_type on one text                                        *)
(***************************************************************************)
\* the longest list of lines handed to _parse_lines
MaxLines == 5

\* the longest text handed to _detect_diagram_type, in tokens
MaxTokens == 3

\* the lines a document is made of: opening fences (bare, and indented with
\* text after the marker), closing fences (bare, and with text after the
\* token), a line of a diagram with blanks around it, an empty line, a line
\* with a fence inside it
LineKinds ==
    { <<FENCE, "mermaid">>,
      <<" ", FENCE, "mermaid", " ", "x">>,
      <<FENCE>>,
      <<FENCE, "x", " ">>,
      <<" ", "graph", " ", "x", " ">>,
      << >>,
      <<"x", FENCE>> }

\* the lists of lines: content.split(NL) is never the empty list
LineLists == UNION {[1..n -> LineKinds] : n \in 1..MaxLines}

\* the tokens of the texts handed to the classifier
TextTokens ==
    {"graph", "flowchart", "stateDiagram", "-v2", "Graph", " ", NL, "x"}

Texts == UNION {[1..n -> TextTokens] : n \in 0..MaxTokens}

\* _parse_lines(lines) is entered, or _detect_diagram_type(code) is
InitParse ==
    /\ InitWith({}, FullScope)
    /\ NoConnection
    /\ \/ /\ scan \in {[status |-> "loop", lines |-> l, line_num |-> 0,
                         st |-> ScanInit] : l \in LineLists}
          /\ detect = NoDetect
       \/ /\ scan = NoScan
          /\ detect \in {[status |-> "entered", code |-> c, result |-> None,
                            checker_result |-> None] : c \in Texts}

\* one iteration of the for loop of _parse_lines (lines 122-157)
P_Line ==
    /\ scan.status = "loop"
    /\ scan.line_num < Len(scan.lines)
    /\ scan' = [scan EXCEPT
           !.line_num = @ + 1,
           !.st = ScanLine(scan.st, scan.line_num + 1,
                           scan.lines[scan.line_num + 1])]
    /\ UNCHANGED <<scope, connvars, pc, entry, outcome, frame, procs, fs, calls, detect>>

\* as P_Return, with a block that is still open at the end of the
\* document given out as if its fence had been closed on the last line
P_Return_Flush ==
    /\ scan.status = "loop"
    /\ scan.line_num = Len(scan.lines)
    /\ scan' = [scan EXCEPT
           !.status = "returned",
           !.st = IF scan.st.in_mermaid_block
                  THEN [@ EXCEPT !.blocks = Append(@,
                           MermaidBlock(scan.st.block_index,
                               scan.st.block_start_line, Len(scan.lines),
                               join(scan.st.block_code_lines),
                               _detect_diagram_type(
                                   join(scan.st.block_code_lines))))]
                  ELSE @]
    /\ UNCHANGED <<scope, connvars, pc, entry, outcome, frame, procs, fs, calls, detect>>

\* the loop is over: return blocks (line 162)
P_Return ==
    /\ scan.status = "loop"
    /\ scan.line_num = Len(scan.lines)
    /\ scan' = [scan EXCEPT !.status = "returned"]
    /\ UNCHANGED <<scope, connvars, pc, entry, outcome, frame, procs, fs, calls, detect>>

\* _detect_diagram_type(code) of parser.py and of checker.py run and return
D_Detect ==
    /\ detect.status = "entered"
    /\ detect' = [detect EXCEPT
           !.status = "returned",
           !.result = _detect_diagram_type(detect.code),
           !.checker_result = checker_detect_diagram_type(detect.code)]
    /\ UNCHANGED <<scope, connvars, pc, entry, outcome, frame, procs, fs, calls, scan>>

NextParse == P_Line \/ P_Return \/ D_Detect

SpecParse == InitParse /\ [][NextParse]_vars

(***************************************************************************)
(* core/config.py and core/connection.py: the connection singleton         *)
(***************************************************************************)
\* the most Neo4jConnection objects made in a run
MaxInstances == 2

\* the most Driver objects made in a run
MaxDrivers == 3

\* the database names of the model; the first is the default of
\* NEO4J_DATABASE
Databases == {"neo4j", "other"}

\* the URIs of the model: one that GraphDatabase.driver accepts and one whose
\* scheme it rejects
Uris == {"bolt://db", "ftp://db"}

\* the dataclass Neo4jConfig; user and password play no part
Neo4jConfig(uri, database) == [uri |-> uri, database |-> database]

Configs == {Neo4jConfig(u, d) : u \in Uris, d \in Databases}

\* the environment: whether NEO4J_URI, NEO4J_USER and NEO4J_PASSWORD are all
\* set once load_dotenv has run, the URI (a good one), and NEO4J_DATABASE
\* if set
Environs ==
    [complete : BOOLEAN, NEO4J_URI : {"bolt://db"},
     NEO4J_DATABASE : {None} \cup {Some(d) : d \in Databases}]

\* os.getenv("NEO4J_DATABASE", "neo4j")
getenv_database(env) ==
    IF env.NEO4J_DATABASE = None THEN "neo4j" ELSE env.NEO4J_DATABASE[1]

\* Neo4jConfig.from_env: the configuration, or ValueError
from_env(env) ==
    IF ~env.complete
    THEN [raised |-> "ValueError", value |-> None]
    ELSE [raised |-> "none",
          value |-> Some(Neo4jConfig(env.NEO4J_URI, getenv_database(env)))]

\* GraphDatabase.driver raises ConfigurationError on a scheme it does not know
SupportedUri(uri) == uri = "bolt://db"

\* a Neo4jConnection object as object.__new__ leaves it: both attributes are
\* read from the class, where they are None
NewObject == [_driver |-> None, _config |-> None]

\* Neo4jConnection.initialize on object i: the objects and drivers it
\* leaves, and the exception it raises, if any
initialize(objs, drvs, env, i, config, force) ==
    IF objs[i]._driver # None /\ ~force
    THEN [objects |-> objs, drivers |-> drvs, raised |-> "none"]
    ELSE LET closed == IF objs[i]._driver # None
                       THEN [drvs EXCEPT ![objs[i]._driver[1]] = "closed"]
                       ELSE drvs
             loaded == IF config # None
                       THEN [raised |-> "none", value |-> config]
                       ELSE from_env(env)
         IN  IF loaded.raised # "none"
             THEN [objects |-> objs, drivers |-> closed,
                   raised |-> loaded.raised]
             ELSE IF ~SupportedUri(loaded.value[1].uri)
             THEN [objects |-> [objs EXCEPT ![i]._config = loaded.value],
                   drivers |-> closed, raised |-> "ConfigurationError"]
             ELSE [objects |-> [objs EXCEPT ![i]._config = loaded.value,
                                            ![i]._driver = Some(Len(closed) + 1)],
                   drivers |-> Append(closed, "open"), raised |-> "none"]

\* Neo4jConnection(): __new__ makes the object if there is none
Construct ==
    /\ _instance = None => Len(objects) < MaxInstances
    /\ IF _instance = None
       THEN /\ objects' = Append(objects, NewObject)
            /\ _instance' = Some(Len(objects) + 1)
       ELSE UNCHANGED <<_instance, objects>>
    /\ UNCHANGED <<scope, pc, entry, outcome, frame, procs, fs, calls, scan,
                   detect, drivers, environ, got>>

\* conn.initialize(config, force) on an object the caller holds
Initialize(i) ==
    /\ \E config \in {None} \cup {Some(c) : c \in Configs}, force \in BOOLEAN :
         LET r == initialize(objects, drivers, environ, i, config, force) IN
         /\ Len(r.drivers) <= MaxDrivers
         /\ objects' = r.objects
         /\ drivers' = r.drivers
    /\ UNCHANGED <<scope, pc, entry, outcome, frame, procs, fs, calls, scan,
                   detect, _instance, environ, got>>

\* conn.close() on an object the caller holds
Close(i) ==
    /\ IF objects[i]._driver # None
       THEN /\ drivers' = [drivers EXCEPT ![objects[i]._driver[1]] = "closed"]
            /\ objects' = [objects EXCEPT ![i]._driver = None]
            /\ _instance' = None
       ELSE UNCHANGED <<_instance, objects, drivers>>
    /\ UNCHANGED <<scope, pc, entry, outcome, frame, procs, fs, calls, scan,
                   detect, environ, got>>

\* get_connection(), whether it returns or raises
get_connection ==
    LET objs == IF _instance = None THEN Append(objects, NewObject)
                                    ELSE objects
        i == IF _instance = None THEN Len(objects) + 1 ELSE _instance[1]
        conn == objs[i]
        r == IF conn._driver = None
             THEN initialize(objs, drivers, environ, i, None, FALSE)
             ELSE IF /\ conn._config # None
                     /\ getenv_database(environ) # conn._config[1].database
             THEN initialize(objs, drivers, environ, i, None, TRUE)
             ELSE [objects |-> objs, drivers |-> drivers, raised |-> "none"]
    IN  /\ Len(objs) <= MaxInstances
        /\ Len(r.drivers) <= MaxDrivers
        /\ _instance' = Some(i)
        /\ objects' = r.objects
        /\ drivers' = r.drivers
        /\ UNCHANGED <<scope, pc, entry, outcome, frame, procs, fs, calls,
                       scan, detect, environ, got>>

\* conn.driver on an object the caller holds: whether the object is the
\* current singleton, what the property raised, and whether the driver it
\* returned was closed
ReadDriver(i) ==
    /\ got' = IF objects[i]._driver = None
              THEN [current |-> _instance = Some(i), raised |-> "RuntimeError",
                    closed |-> FALSE]
              ELSE [current |-> _instance = Some(i), raised |-> "none",
                    closed |-> drivers[objects[i]._driver[1]] = "closed"]
    /\ UNCHANGED <<scope, pc, entry, outcome, frame, procs, fs, calls, scan,
                   detect, _instance, objects, drivers, environ>>

\* the environment of the process changes
SetEnviron ==
    /\ environ' \in Environs \ {environ}
    /\ UNCHANGED <<scope, pc, entry, outcome, frame, procs, fs, calls, scan,
                   detect, _instance, objects, drivers, got>>

InitConn ==
    /\ InitWith({}, FullScope)
    /\ scan = NoScan
    /\ detect = NoDetect
    /\ _instance = None
    /\ objects = << >>
    /\ drivers = << >>
    /\ environ \in Environs
    /\ got = NoRead

NextConn ==
    \/ Construct
    \/ get_connection
    \/ SetEnviron
    \/ \E i \in 1..Len(objects) : Initialize(i)
    \/ \E i \in 1..Len(objects) : Close(i)
    \/ \E i \in 1..Len(objects) : ReadDriver(i)

SpecConn == InitConn /\ [][NextConn]_vars

(***************************************************************************)
(* Vocabulary of the properties                                            *)
(***************************************************************************)
\* validate_code call n of caller t has ended
Ended(t, n) == n < Len(calls[t]) \/ pc[t] \notin VPcs

\* the children started by call n of caller t
ChildrenOf(t, n) == {k \in 1..Len(procs[t]) : procs[t][k].call = n}

\* the paths at which a file created by call n of caller t exists
FilesOf(t, n) == {p \in Paths : fs[p] = <<t, n>>}

(***************************************************************************)
(* Scratch input file                                                      *)
(***************************************************************************)
\* C1: once a validate_code call on non-empty code has ended, however it
\* ended, no scratch input file created by that call exists.
C1_ScratchInputDeleted ==
    \A t \in Tasks : \A n \in 1..Len(calls[t]) :
        (Ended(t, n) /\ ~IsBlank(calls[t][n].code))
            => \A p \in FilesOf(t, n) : p[2] # TEMP_FILE_SUFFIX

(***************************************************************************)
(* The entry points                                                        *)
(***************************************************************************)
\* C2: an entry point that has ended has returned a string; it raises
\* nothing, whatever the tool and the filesystem did (a cancellation by the
\* caller itself is not in the claim).
C2_AlwaysReturnsString ==
    \A t \in Tasks :
        (pc[t] = "done" /\ entry[t].kind \in {"code", "file", "list"})
            => \/ outcome[t].tag = "return"
               \/ outcome[t].exc = "CancelledError"

(***************************************************************************)
(* Timeout                                                                 *)
(***************************************************************************)
\* C3: from the moment validate_code holds the timeout (the TimeoutError
\* re-raised by _run_mmdc) up to and after its return of the timeout outcome,
\* the one child of that call was killed and has exited.
C3_TimeoutAfterChildExit ==
    \A t \in Tasks : \A n \in 1..Len(calls[t]) :
        calls[t][n].fault = "TimeoutError"
            => /\ ChildrenOf(t, n) # {}
               /\ \A k \in ChildrenOf(t, n) :
                     /\ procs[t][k].state = "exited"
                     /\ procs[t][k].status = Some(Killed)

\* a direct caller has received the timeout outcome of a call whose child
\* had not completed
C3_Witness ==
    \E t \in Tasks :
        /\ pc[t] = "done"
        /\ entry[t].kind = "validate"
        /\ calls[t][1].fault = "TimeoutError"
        /\ outcome[t].tag = "return"
        /\ outcome[t].result # None
        /\ ~outcome[t].result[1].valid
        /\ procs[t][1].status = Some(Killed)

\* C4: every validate_code call that has begun ends, also when its child
\* never exits by itself: the deadline fires, the child is killed and, once it
\* has exited, the call returns.
C4_CallEnds ==
    \A t \in Tasks : (pc[t] \in VPcs) ~> (pc[t] \notin VPcs)

\* a call has ended by the deadline: its child was killed, never having
\* completed, and the caller is past validate_code
C4_Witness ==
    \E t \in Tasks : \E n \in 1..Len(calls[t]) :
        /\ Ended(t, n)
        /\ calls[t][n].started = 1
        /\ calls[t][n].faultAt = "wait"
        /\ \A k \in ChildrenOf(t, n) : procs[t][k].status = Some(Killed)

(***************************************************************************)
(* The outcome of a validation                                             *)
(***************************************************************************)
\* the child of call n of caller t completed by itself and communicate()
\* returned its exit code and streams to the call
CompletedInTime(t, n) ==
    /\ Ended(t, n)
    /\ calls[t][n].fault \notin {"TimeoutError", "CancelledError"}
    /\ \E k \in ChildrenOf(t, n) :
           procs[t][k].state = "exited" /\ procs[t][k].status # Some(Killed)

\* the exit status of the child of call n of caller t
StatusOf(t, n) ==
    procs[t][CHOOSE k \in ChildrenOf(t, n) : TRUE].status[1]

\* C5: when the child completed before the deadline, the exit code alone
\* decides: zero gives valid=true with the classified type and no error
\* fields, nonzero gives valid=false with the classified type and the error
\* line and message parsed from the captured standard error.
C5_ExitCodeDecides ==
    \A t \in Tasks : \A n \in 1..Len(calls[t]) :
        CompletedInTime(t, n)
            => LET c == calls[t][n]
                   x == StatusOf(t, n)
               IN  /\ c.raised = "none"
                   /\ c.result # None
                   /\ c.result[1].valid = (x.rc = 0)
                   /\ c.result[1].diagram_type = _detect_diagram_type(c.code)
                   /\ x.rc = 0 => /\ c.result[1].error_line = None
                                  /\ c.result[1].error_message = None
                   /\ x.rc # 0 => c.result[1].error_message # None

\* C6: the timeout outcome and the tool-not-found outcome are valid=false
\* without diagram type and without error line, whatever the fragment; the
\* timeout message names the timeout of that call, the other message is the
\* fixed installation hint.
C6_TimeoutAndNotFoundOutcomes ==
    \A t \in Tasks : \A n \in 1..Len(calls[t]) :
        LET c == calls[t][n] IN
        /\ (Ended(t, n) /\ c.fault = "TimeoutError")
              => /\ c.raised = "none"
                 /\ c.result =
                      Some([valid |-> FALSE, diagram_type |-> None,
                            error_line |-> None,
                            error_message |->
                                Some(<<"Validation timed out after ",
                                       IF c.timeout = 5 THEN "5" ELSE "30",
                                       "s">>)])
        /\ (Ended(t, n) /\ c.fault = "FileNotFoundError" /\ c.faultAt = "spawn")
              => /\ c.raised = "none"
                 /\ c.result =
                      Some([valid |-> FALSE, diagram_type |-> None,
                            error_line |-> None,
                            error_message |->
                                Some(<<"Mermaid CLI not found. Please install @mermaid-js/mermaid-cli">>)])

\* both outcomes have been returned for fragments whose first line starts
\* with a keyword of the table: one call ran into its deadline, another met a
\* missing tool
C6_Witness ==
    \E t, u \in Tasks : \E n \in 1..Len(calls[t]) : \E m \in 1..Len(calls[u]) :
        /\ Ended(t, n) /\ Ended(u, m)
        /\ _detect_diagram_type(calls[t][n].code) # None
        /\ _detect_diagram_type(calls[u][m].code) # None
        /\ calls[t][n].fault = "TimeoutError"
        /\ calls[t][n].result # None
        /\ calls[t][n].result[1].diagram_type = None
        /\ calls[u][m].fault = "FileNotFoundError"
        /\ calls[u][m].faultAt = "spawn"
        /\ calls[u][m].result # None
        /\ calls[u][m].result[1].diagram_type = None

\* C7: empty or whitespace-only code is rejected before anything is done:
\* validate_code raises the ValueError and returns no result, and
\* check_mermaid_code (also for None) returns "Error: Code is required"
\* without calling validate_code; no scratch file is created, no child started.
C7_EmptyInputRejected ==
    /\ \A t \in Tasks : \A n \in 1..Len(calls[t]) :
          IsBlank(calls[t][n].code)
             => /\ calls[t][n].created = None
                /\ calls[t][n].attempts = 0
                /\ ChildrenOf(t, n) = {}
                /\ FilesOf(t, n) = {}
                /\ calls[t][n].result = None
                /\ Ended(t, n) => calls[t][n].raised = "ValueError"
                /\ (n = Len(calls[t]) /\ pc[t] \in VPcs) => pc[t] = "v_entry"
    /\ \A t \in Tasks :
          (entry[t].kind = "code"
              /\ (entry[t].code = None \/ IsBlank(entry[t].code[1])))
             => /\ pc[t] = "done"
                /\ outcome[t] = Return(<<"Error: Code is required">>)
                /\ calls[t] = << >>
                /\ procs[t] = << >>
                /\ \A p \in Paths : fs[p] = Free \/ fs[p][1] # t

\* validate_code has raised on whitespace-only code, handed in by a direct
\* caller
C7_Witness ==
    \E t \in Tasks :
        /\ pc[t] = "done"
        /\ entry[t].kind = "validate"
        /\ calls[t][1].code = <<" ", NL>>
        /\ outcome[t] = Raise("ValueError")

(***************************************************************************)
(* One child per call, own scratch files, one block at a time              *)
(***************************************************************************)
\* C8 as stated: every validate_code call on non-empty code that has ended
\* has spawned exactly once and started exactly one child.
C8_ExactlyOneSpawn ==
    \A t \in Tasks : \A n \in 1..Len(calls[t]) :
        (Ended(t, n) /\ ~IsBlank(calls[t][n].code))
            => calls[t][n].attempts = 1 /\ calls[t][n].started = 1

\* C8 as amended: a call spawns at most once and starts at most one child,
\* which is its own; it spawns exactly once whenever its scratch input file
\* was written, and not at all when creating or writing that file failed; a
\* verdict drawn from an exit code is drawn from the exit code of the child of
\* the same call, also for a fragment validated before.
C8_AtMostOneSpawn ==
    \A t \in Tasks : \A n \in 1..Len(calls[t]) :
        LET c == calls[t][n] IN
        /\ c.attempts <= 1
        /\ c.started <= c.attempts
        /\ Cardinality(ChildrenOf(t, n)) = c.started
        /\ (Ended(t, n) /\ c.written) => c.attempts = 1
        /\ ~c.written => c.attempts = 0
        /\ (Ended(t, n) /\ c.result # None /\ c.fault = "none")
              => /\ c.started = 1
                 /\ c.result[1].valid = (StatusOf(t, n).rc = 0)

\* two calls on the same fragment have ended, each with its own spawn, and
\* with different verdicts
C8_Witness ==
    \E t, u \in Tasks :
        /\ t # u
        /\ pc[t] = "done" /\ pc[u] = "done"
        /\ calls[t] # << >> /\ calls[u] # << >>
        /\ calls[t][1].code = calls[u][1].code
        /\ calls[t][1].attempts = 1 /\ calls[u][1].attempts = 1
        /\ calls[t][1].result # None /\ calls[u][1].result # None
        /\ calls[t][1].result[1].valid
        /\ ~calls[u][1].result[1].valid

\* the positions of validate_code at which the scratch input file is held
Holding ==
    {"v_spawn", "v_wait", "v_reap", "v_outclean", "v_body", "v_except",
     "v_finally"}

\* C9: two calls that overlap hold different scratch input paths and
\* different scratch output paths, the output path being the input path with
\* the suffix replaced; the scratch input of a call stays the file that call
\* created until the call deletes it, and a child is handed the two paths of
\* its own call.
C9_DistinctScratchPaths ==
    /\ \A t \in Tasks :
          (pc[t] \in Holding /\ frame[t].temp_file # None)
             => /\ fs[frame[t].temp_file[1]] = Me(t)
                /\ frame[t].temp_file[1][2] = ".mmd"
                /\ frame[t].output_file # None
                      => /\ frame[t].output_file[1][1] = frame[t].temp_file[1][1]
                         /\ frame[t].output_file[1][2] = ".svg"
                /\ \A k \in ChildrenOf(t, Cur(t)) :
                      /\ procs[t][k].input = frame[t].temp_file[1]
                      /\ procs[t][k].output[1] = frame[t].temp_file[1][1]
                      /\ procs[t][k].output[2] = ".svg"
    /\ \A t, u \in Tasks :
          (t # u /\ pc[t] \in Holding /\ pc[u] \in Holding
              /\ frame[t].temp_file # None /\ frame[u].temp_file # None)
             => /\ frame[t].temp_file # frame[u].temp_file
                /\ (frame[t].output_file # None /\ frame[u].output_file # None)
                      => frame[t].output_file # frame[u].output_file

\* two calls wait for their children at the same time, each child having
\* written its output file
C9_Witness ==
    /\ pc["t1"] = "v_wait" /\ pc["t2"] = "v_wait"
    /\ fs[frame["t1"].output_file[1]] = Me("t1")
    /\ fs[frame["t2"].output_file[1]] = Me("t2")

\* C10: check_mermaid_file validates its blocks one at a time in index
\* order: the k-th validate_code call is on block k, every child of an earlier
\* call has exited before the next call begins, and at most one child of the
\* caller has not exited.
C10_OneBlockAtATime ==
    \A t \in Tasks :
        entry[t].kind = "file"
            => /\ \A n \in 1..Len(calls[t]) :
                     /\ calls[t][n].block = n
                     /\ calls[t][n].code = entry[t].blocks[n].code
               /\ Len(calls[t]) <= Len(entry[t].blocks)
               /\ \A k \in 1..Len(procs[t]) :
                     procs[t][k].call < Len(calls[t])
                        => procs[t][k].state = "exited"
               /\ Cardinality({k \in 1..Len(procs[t]) :
                                  procs[t][k].state # "exited"}) <= 1

\* the child of the second block runs after the child of the first block
\* has exited
C10_Witness ==
    \E t \in Tasks :
        /\ entry[t].kind = "file"
        /\ Len(procs[t]) = 2
        /\ procs[t][1].call = 1 /\ procs[t][1].state = "exited"
        /\ procs[t][2].call = 2 /\ procs[t][2].state = "running"

(***************************************************************************)
(* The report of check_mermaid_file                                        *)
(***************************************************************************)
\* check_mermaid_file of caller t has returned its report on a document
\* with blocks
FileReported(t) ==
    /\ pc[t] = "done"
    /\ entry[t].kind = "file"
    /\ outcome[t].tag = "return"
    /\ Len(entry[t].blocks) > 0

\* the validate_code calls of caller t that returned valid=true
ValidCalls(t) ==
    {n \in 1..Len(calls[t]) :
        calls[t][n].result # None /\ calls[t][n].result[1].valid}

\* C13: the report of check_mermaid_file on a document with blocks states
\* Total blocks = the number of extracted blocks and Valid + Invalid = Total:
\* block k was validated by exactly one call, the k-th, and is counted as
\* valid if that call returned valid=true and as invalid otherwise.
C13_CountsAddUp ==
    \A t \in Tasks :
        FileReported(t) =>
            LET n == Len(entry[t].blocks)
                report == split(outcome[t].text)
            IN  /\ Len(calls[t]) = n
                /\ \A k \in 1..n : calls[t][k].block = k
                /\ report[2] = <<"Total blocks: ", ToString(n)>>
                /\ \E v \in 0..n, i \in 0..n :
                       /\ report[3] = <<"Valid: ", ToString(v)>>
                       /\ report[4] = <<"Invalid: ", ToString(i)>>
                       /\ v + i = n
                       /\ v = Cardinality(ValidCalls(t))

\* a report on two blocks, one valid and one not
C13_Witness ==
    \E t \in Tasks :
        /\ FileReported(t)
        /\ Len(entry[t].blocks) = 2
        /\ Cardinality(ValidCalls(t)) = 1
        /\ split(outcome[t].text)[4] = <<"Invalid: ", "1">>

\* the blocks of caller t that were not found valid
InvalidBlocks(t) == (1..Len(entry[t].blocks)) \ ValidCalls(t)

\* the j-th of them in document order
NthInvalid(t, j) ==
    CHOOSE k \in InvalidBlocks(t) :
        Cardinality({q \in InvalidBlocks(t) : q < k}) = j - 1

\* the lines of the report after the counts and the empty line
ReportBody(t) ==
    LET report == split(outcome[t].text)
    IN  SubSeq(report, 6, Len(report))

\* C14: the body of the report after the counts is the line MSG_ALL_VALID
\* if and only if the Invalid count is 0; otherwise it is one error entry
\* per invalid block, in document order, each headed by the index and the
\* start_line of its block and followed by an indented message line.
C14_BodyMatchesInvalid ==
    \A t \in Tasks :
        FileReported(t) =>
            LET body == ReportBody(t)
                m == Cardinality(InvalidBlocks(t))
            IN  /\ split(outcome[t].text)[4] = <<"Invalid: ", "0">>
                       <=> body = <<MSG_ALL_VALID>>
                /\ split(outcome[t].text)[4] # <<"Invalid: ", "0">>
                       => /\ Len(body) = 2 * m
                          /\ \A j \in 1..m :
                               LET block == entry[t].blocks[NthInvalid(t, j)]
                               IN  /\ body[2 * j - 1] =
                                         <<"Error in block ",
                                           ToString(block.index), " (line ",
                                           ToString(block.start_line), "):">>
                                   /\ Len(body[2 * j]) > 1
                                   /\ body[2 * j][1] = "  "

\* a report with two error entries
C14_Witness ==
    \E t \in Tasks :
        /\ FileReported(t)
        /\ Cardinality(InvalidBlocks(t)) = 2
        /\ Len(ReportBody(t)) = 4

(***************************************************************************)
(* Documents that cannot be read                                           *)
(***************************************************************************)
\* check_mermaid_file or list_mermaid_blocks of caller t has ended
DocCallEnded(t) ==
    /\ pc[t] = "done"
    /\ entry[t].kind \in {"file", "list"}

\* the document exists and cannot be read or decoded
Unreadable(doc) ==
    \/ doc.status \in {"nostat", "denied"}
    \/ doc.status = "ok" /\ \E i \in 1..Len(doc.bytes) : doc.bytes[i] = BADBYTE

HasLineReference(text) ==
    \E i \in 1..Len(text), j \in 1..Len(text) :
        /\ i + 1 < j
        /\ IsLineWord(text[i])
        /\ \A k \in (i + 1)..(j - 1) : text[k] \in Whitespace
        /\ text[j] \in Digits

\* C16: in every result validate_code returns, valid=true comes without
\* error_line and error_message; valid=false comes with a non-blank
\* error_message, which is "Validation failed" when the diagnostic text of
\* the tool was blank; error_line is present only when valid is false and
\* the diagnostic text of the tool held a line reference.
C16_ResultWellFormed ==
    \A t \in Tasks : \A n \in 1..Len(calls[t]) :
        calls[t][n].result # None =>
            LET r == calls[t][n].result[1] IN
            /\ r.valid => r.error_line = None /\ r.error_message = None
            /\ ~r.valid => /\ r.error_message # None
                           /\ Len(strip(r.error_message[1])) > 0
            /\ (~r.valid /\ CompletedInTime(t, n)
                     /\ \A i \in 1..Len(StatusOf(t, n).err) :
                            StatusOf(t, n).err[i] \in Whitespace)
                  => r.error_message = Some(<<"Validation failed">>)
            /\ r.error_line # None
                  => /\ ~r.valid
                     /\ CompletedInTime(t, n)
                     /\ HasLineReference(StatusOf(t, n).err)

\* a call returned valid=false with the line the tool named
C16_Witness ==
    \E t \in Tasks : \E n \in 1..Len(calls[t]) :
        /\ calls[t][n].result # None
        /\ ~calls[t][n].result[1].valid
        /\ calls[t][n].result[1].error_line = Some(3)
        /\ calls[t][n].result[1].error_message = Some(<<"x", " ", "line", " ", "3">>)

(***************************************************************************)
(* The block extractor                                                     *)
(***************************************************************************)
\* what a line is to the scanner: an opening fence, a closing fence that is
\* not an opening one, or text
FenceKind(line) ==
    IF startswith(strip(line), MERMAID_FENCE_START) THEN "open"
    ELSE IF startswith(strip(line), CODE_FENCE_END) THEN "close"
    ELSE "text"

\* the numbers of the lines that are fences
FenceLines(lines) == {p \in 1..Len(lines) : FenceKind(lines[p]) # "text"}

\* the number of fences before line p
FencesBefore(lines, p) == Cardinality({q \in FenceLines(lines) : q < p})

\* the number of the n-th fence line
NthFence(lines, n) ==
    CHOOSE p \in FenceLines(lines) : FencesBefore(lines, p) = n - 1

\* opening and closing fences alternate, from an opening to a closing one
CorrectlyPaired(lines) ==
    /\ Cardinality(FenceLines(lines)) % 2 = 0
    /\ \A p \in FenceLines(lines) :
           FenceKind(lines[p]) = "open" <=> FencesBefore(lines, p) % 2 = 0

\* C11: for a document whose opening and closing fence lines alternate
\* (N pairs, N >= 0), _parse_lines returns exactly N blocks, the k-th with
\* index k and running from the k-th opening to the k-th closing fence; an
\* empty document and a document without fences give no block.
C11_PairedFencesGiveBlocks ==
    (scan.status = "returned" /\ CorrectlyPaired(scan.lines)) =>
        LET N == Cardinality(FenceLines(scan.lines)) \div 2
            blocks == scan.st.blocks
        IN  /\ Len(blocks) = N
            /\ \A k \in 1..N :
                   /\ blocks[k].index = k
                   /\ blocks[k].start_line = NthFence(scan.lines, 2 * k - 1)
                   /\ blocks[k].end_line = NthFence(scan.lines, 2 * k)

\* two pairs of fences were scanned and gave two blocks
C11_Witness ==
    /\ scan.status = "returned"
    /\ CorrectlyPaired(scan.lines)
    /\ Cardinality(FenceLines(scan.lines)) = 4
    /\ Len(scan.st.blocks) = 2

\* C12: for every document, the blocks _parse_lines returns have
\* start_line < end_line, the k-th block has index k, and each block starts
\* after the end of the block before it: ranges do not overlap or nest.
C12_BlocksOrderedDisjoint ==
    scan.status = "returned" =>
        LET blocks == scan.st.blocks IN
        \A k \in 1..Len(blocks) :
            /\ blocks[k].start_line < blocks[k].end_line
            /\ blocks[k].index = k
            /\ k > 1 => blocks[k].start_line > blocks[k - 1].end_line

\* a document whose fences are not paired gave two blocks
C12_Witness ==
    /\ scan.status = "returned"
    /\ ~CorrectlyPaired(scan.lines)
    /\ Len(scan.st.blocks) = 2

(***************************************************************************)
(* The classifier                                                          *)
(***************************************************************************)
\* the text from its first character that is not white space, or nothing
FromFirstWord(text) ==
    IF \A i \in 1..Len(text) : text[i] \in Whitespace THEN << >>
    ELSE LET i == CHOOSE k \in 1..Len(text) :
                      /\ text[k] \notin Whitespace
                      /\ \A j \in 1..(k - 1) : text[j] \in Whitespace
         IN  SubSeq(text, i, Len(text))

\* the tags of the table keywords the text begins with
TagsOf(text) ==
    {DIAGRAM_TYPES[e][2] : e \in {x \in 1..Len(DIAGRAM_TYPES) :
        /\ Len(DIAGRAM_TYPES[x][1]) <= Len(text)
        /\ \A i \in 1..Len(DIAGRAM_TYPES[x][1]) :
               text[i] = DIAGRAM_TYPES[x][1][i]}}

\* C17: _detect_diagram_type returns, for any text, the tag of the table
\* keyword its first non-empty trimmed line begins with (case-sensitive),
\* and None when there is no such line or no keyword is a prefix of it;
\* lines after that one do not matter, and "graph" gives the tag
\* "flowchart" as "flowchart" does.
C17_ClassifierByFirstLine ==
    detect.status = "returned" =>
        LET tags == TagsOf(FromFirstWord(detect.code)) IN
        /\ tags = {} => detect.result = None
        /\ tags # {} => detect.result # None /\ tags = {detect.result[1]}
        /\ "flowchart" \in tags
              <=> (FromFirstWord(detect.code) # << >>
                     /\ Head(FromFirstWord(detect.code))
                            \in {"graph", "flowchart"})

\* a text whose first non-empty line matches no keyword and whose next
\* line begins with one was classified as unknown
C17_Witness ==
    /\ detect.status = "returned"
    /\ detect.code = <<"x", NL, "graph">>
    /\ detect.result = None

(***************************************************************************)
(* The report of check_mermaid_code                                        *)
(***************************************************************************)
\* check_mermaid_code of caller t has returned a string for a fragment that
\* is not blank
CodeReported(t) ==
    /\ pc[t] = "done"
    /\ entry[t].kind = "code"
    /\ outcome[t].tag = "return"
    /\ entry[t].code # None
    /\ \E i \in 1..Len(entry[t].code[1]) : entry[t].code[1][i] \notin Whitespace

\* C18: for a fragment that is not blank, the string check_mermaid_code
\* returns is "Valid: true" with the diagram type if the validation outcome
\* is valid, "Valid: false" with "Error at line n: message" if it is invalid
\* with a line, and "Valid: false" with "Error: message" if it is invalid
\* without a line.
C18_ThreeShapes ==
    \A t \in Tasks :
        CodeReported(t) =>
            /\ Len(calls[t]) = 1
            /\ calls[t][1].result # None
            /\ LET r == calls[t][1].result[1] IN
               outcome[t].text =
                   IF r.valid
                   THEN <<"Valid: true", NL, "Diagram type: ",
                          IF r.diagram_type = None THEN "None"
                          ELSE r.diagram_type[1]>>
                   ELSE IF r.error_line # None
                   THEN <<"Valid: false", NL, "Error at line ",
                          ToString(r.error_line[1]), ": ">> \o r.error_message[1]
                   ELSE <<"Valid: false", NL, "Error: ">> \o r.error_message[1]

(***************************************************************************)
(* The report of list_mermaid_blocks                                       *)
(***************************************************************************)
\* C19: for the document doc.md with one block that opens on line 2 and
\* holds the two lines "flowchart TD" and "A --> B" (TD and the second line
\* are the word x here), list_mermaid_blocks returns
\* "File: doc.md", "Total blocks: 1", an empty line, "Block 1 (line 2-4):",
\* "  Type: flowchart", "  Lines: 2".
C19_ListingExample ==
    \A t \in Tasks :
        (/\ pc[t] = "done"
         /\ entry[t].kind = "list"
         /\ outcome[t].tag = "return"
         /\ Len(entry[t].blocks) = 1
         /\ entry[t].blocks[1].start_line = 2
         /\ entry[t].blocks[1].code = <<"flowchart", " ", "x", NL, "x">>)
            => outcome[t].text =
                   <<"File: ", "doc.md", NL,
                     "Total blocks: ", "1", NL,
                     NL,
                     "Block ", "1", " (line ", "2", "-", "4", "):", NL,
                     "  Type: ", "flowchart", NL,
                     "  Lines: ", "2">>

(***************************************************************************)
(* The two states of the scanner                                           *)
(***************************************************************************)
\* the scanner is about to read a line
Reading == scan.status = "loop" /\ scan.line_num < Len(scan.lines)

\* the trimmed line begins with the token
BeginsWith(line, token) ==
    LET text == FromFirstWord(line) IN
    /\ Len(token) <= Len(text)
    /\ \A i \in 1..Len(token) : text[i] = token[i]

\* C20: while the scanner is inside a block, a line whose trimmed content
\* begins with the closing token ends the block, whatever follows the token
\* (an opening fence line too): the block is emitted from the recorded start
\* line to this line and the scanner is outside again; any other line
\* leaves it inside the same block.  Outside a block, an opening fence line
\* opens one at its line number and any other line changes nothing.
C20_ClosingTokenEndsBlock ==
    [][Reading =>
          LET n == scan.line_num + 1
              line == scan.lines[n]
              before == scan.st
              after == scan'.st
          IN  /\ (before.in_mermaid_block /\ BeginsWith(line, <<FENCE>>))
                    => /\ ~after.in_mermaid_block
                       /\ Len(after.blocks) = Len(before.blocks) + 1
                       /\ after.blocks[Len(after.blocks)].start_line
                              = before.block_start_line
                       /\ after.blocks[Len(after.blocks)].end_line = n
              /\ (before.in_mermaid_block /\ ~BeginsWith(line, <<FENCE>>))
                    => /\ after.in_mermaid_block
                       /\ after.blocks = before.blocks
                       /\ after.block_start_line = before.block_start_line
              /\ (~before.in_mermaid_block
                     /\ BeginsWith(line, <<FENCE, "mermaid">>))
                    => /\ after.in_mermaid_block
                       /\ after.block_start_line = n
                       /\ after.blocks = before.blocks
              /\ (~before.in_mermaid_block
                     /\ ~BeginsWith(line, <<FENCE, "mermaid">>))
                    => /\ ~after.in_mermaid_block
                       /\ after.blocks = before.blocks
      ]_vars

(***************************************************************************)
(* The end of the document and the code of a block                         *)
(***************************************************************************)
\* the last fence line of the document is an opening fence
EndsInside(lines) ==
    /\ FenceLines(lines) # {}
    /\ FenceKind(lines[NthFence(lines, Cardinality(FenceLines(lines)))]) = "open"

\* the document up to the line before its last fence line
BeforeLastFence(lines) ==
    SubSeq(lines, 1, NthFence(lines, Cardinality(FenceLines(lines))) - 1)

\* C21: when the document ends inside a block (its last fence is an opening
\* one), _parse_lines returns, without a block for the open region: every
\* block it returns ends before that opening fence, and the blocks are
\* those of the document cut before that fence.
C21_UnterminatedBlockDropped ==
    (scan.status = "returned" /\ EndsInside(scan.lines)) =>
        /\ scan.st.in_mermaid_block
        /\ \A k \in 1..Len(scan.st.blocks) :
               scan.st.blocks[k].end_line
                   < NthFence(scan.lines, Cardinality(FenceLines(scan.lines)))
        /\ scan.st.blocks = _parse_lines(BeforeLastFence(scan.lines))

\* a document with one complete block and then an opening fence and a line
\* of text was scanned to its end
C21_Witness ==
    /\ scan.status = "returned"
    /\ EndsInside(scan.lines)
    /\ Len(scan.st.blocks) = 1
    /\ Len(scan.st.block_code_lines) = 1

\* the lines first..last of the document put together again, a newline
\* after each but the last
RECURSIVE TextOfLines(_, _, _)
TextOfLines(lines, first, last) ==
    IF first > last THEN << >>
    ELSE IF first = last THEN lines[first]
    ELSE lines[first] \o <<NL>> \o TextOfLines(lines, first + 1, last)

\* C22: the code of every block _parse_lines returns is the lines of the
\* document strictly between the start_line and the end_line of the block,
\* in order and untrimmed, joined with newlines; the fence lines are not
\* part of it.
C22_CodeIsLinesBetweenFences ==
    scan.status = "returned" =>
        \A k \in 1..Len(scan.st.blocks) :
            LET block == scan.st.blocks[k] IN
            block.code = TextOfLines(scan.lines, block.start_line + 1,
                                     block.end_line - 1)

\* a block of two lines, one of them with blanks around its text
C22_Witness ==
    /\ scan.status = "returned"
    /\ Len(scan.st.blocks) = 1
    /\ scan.st.blocks[1].code = <<" ", "graph", " ", "x", " ", NL, "x", FENCE>>

(***************************************************************************)
(* The line named by the diagnostics of the tool                           *)
(***************************************************************************)
\* the child of call n of caller t exited by itself with a nonzero code and
\* with streams that are text
FailedWithText(t, n) ==
    /\ CompletedInTime(t, n)
    /\ StatusOf(t, n).rc # 0
    /\ Decodable(StatusOf(t, n).out)
    /\ Decodable(StatusOf(t, n).err)

\* C23: when the child exits nonzero, validate_code returns valid=false with
\* error_line = N if the standard-error text holds the word "line" followed
\* by the number N, for any N >= 0 and from the first such place, and with
\* no error_line if the text holds no such place.
C23_ErrorLineFromDiagnostics ==
    \A t \in Tasks : \A n \in 1..Len(calls[t]) :
        FailedWithText(t, n) =>
            /\ calls[t][n].raised = "none"
            /\ calls[t][n].result # None
            /\ ~calls[t][n].result[1].valid
            /\ calls[t][n].result[1].error_line = LineSearch(StatusOf(t, n).err)

(***************************************************************************)
(* The scratch output file and the child                                   *)
(***************************************************************************)
\* _run_mmdc was entered by call n of caller t and has been left
InvocationEnded(t, n) ==
    /\ calls[t][n].attempts > 0
    /\ \/ Ended(t, n)
       \/ n = Cur(t) /\ pc[t] \in {"v_body", "v_except", "v_finally"}

\* C24: once the tool invocation step of a validate_code call has ended, on
\* any path, the scratch output file of that call does not exist, whether
\* or not the child created it.
C24_ScratchOutputDeleted ==
    \A t \in Tasks : \A n \in 1..Len(calls[t]) :
        InvocationEnded(t, n)
            => \A p \in FilesOf(t, n) : p[2] # OUTPUT_FILE_SUFFIX

\* C25: on every path of validate_code on which a child was started, the
\* cancellation of the awaiting task included, the child has exited before
\* the scratch output file and the scratch input file are deleted and
\* before the call ends.
C25_ChildExitedBeforeCleanup ==
    \A t \in Tasks : \A n \in 1..Len(calls[t]) :
        InvocationEnded(t, n)
            => \A k \in ChildrenOf(t, n) : procs[t][k].state = "exited"

(***************************************************************************)
(* Reports of empty input                                                  *)
(***************************************************************************)
\* C26: a fragment that is not blank is never reported as empty input:
\* check_mermaid_code returns "Error: Code is required" only for an input
\* that is None or blank, and check_mermaid_file writes the entry
\* "Empty mermaid block" only for a block whose code is blank.
C26_EmptyReportOnlyForEmpty ==
    \A t \in Tasks :
        /\ (/\ pc[t] = "done"
            /\ entry[t].kind = "code"
            /\ outcome[t] = Return(ERROR_CODE_REQUIRED))
              => (entry[t].code = None \/ IsBlank(entry[t].code[1]))
        /\ entry[t].kind = "file"
              => \A j \in 1..Len(entry[t].error_details) :
                 \A k \in 1..Len(entry[t].blocks) :
                     entry[t].error_details[j] = EmptyBlockError(entry[t].blocks[k])
                         => IsBlank(entry[t].blocks[k].code)

(***************************************************************************)
(* The tool-not-found outcome                                              *)
(***************************************************************************)
\* C27: validate_code returns the tool-not-found outcome only when starting
\* the child failed because the mmdc binary does not exist; a not-found
\* fault of another step of the call, such as the creation of the scratch
\* input file, is not reported that way.
C27_NotFoundOnlyFromSpawn ==
    \A t \in Tasks : \A n \in 1..Len(calls[t]) :
        (/\ calls[t][n].result # None
         /\ calls[t][n].result[1].error_message = Some(ERROR_CLI_NOT_FOUND))
            => /\ calls[t][n].faultAt = "spawn"
               /\ calls[t][n].fault = "FileNotFoundError"

(***************************************************************************)
(* The line count of list_mermaid_blocks                                   *)
(***************************************************************************)
\* C28: for every block in the report of list_mermaid_blocks, the Lines
\* value is the number of lines of the document strictly between the fences
\* of the block, end_line - start_line - 1, also when these lines are none,
\* one blank line or several blank lines.
C28_LinesBetweenFences ==
    \A t \in Tasks :
        (/\ pc[t] = "done"
         /\ entry[t].kind = "list"
         /\ outcome[t].tag = "return"
         /\ Len(entry[t].blocks) > 0)
            => \A k \in 1..Len(entry[t].blocks) :
                   LET block == entry[t].blocks[k] IN
                   split(outcome[t].text)[4 * k + 2] =
                       <<"  Lines: ",
                         ToString(block.end_line - block.start_line - 1)>>

(***************************************************************************)
(* The order of the keyword table                                          *)
(***************************************************************************)
\* keyword a is a prefix of keyword b
KeywordPrefix(a, b) == startswith(b, a)

\* the table with entry i evaluated first
MoveToFront(table, i) ==
    <<table[i]>> \o SubSeq(table, 1, i - 1) \o SubSeq(table, i + 1, Len(table))

\* the table evaluated bottom-up
RECURSIVE Reversed(_)
Reversed(table) ==
    IF Len(table) = 0 THEN << >>
    ELSE Append(Reversed(Tail(table)), Head(table))

\* orders of evaluation: any entry can come first, and the table can be
\* reversed.  The result under an order is the tag of the first entry that
\* matches, so the orders that put each entry first decide for all orders.
Orders ==
    {MoveToFront(DIAGRAM_TYPES, i) : i \in 1..Len(DIAGRAM_TYPES)}
        \cup {Reversed(DIAGRAM_TYPES)}

\* C29: the classification does not depend on the order in which the
\* keyword table is evaluated: two keywords of which one is a prefix of the
\* other have the same tag, every order of the table gives the tag the code
\* returns, for every input, and the classifier of parser.py and the one of
\* checker.py return the same.
C29_TableOrderIrrelevant ==
    /\ \A a \in 1..Len(DIAGRAM_TYPES) : \A b \in 1..Len(DIAGRAM_TYPES) :
           KeywordPrefix(DIAGRAM_TYPES[a][1], DIAGRAM_TYPES[b][1])
               => DIAGRAM_TYPES[a][2] = DIAGRAM_TYPES[b][2]
    /\ detect.status = "returned" =>
           /\ \A table \in Orders :
                  DetectWithTable(split(detect.code), table) = detect.result
           /\ detect.checker_result = detect.result

\* a line that two keywords are prefixes of was classified by both
\* classifiers
C29_Witness ==
    /\ detect.status = "returned"
    /\ detect.code = <<"stateDiagram", "-v2", " ">>
    /\ detect.result = Some("stateDiagram")
    /\ detect.checker_result = Some("stateDiagram")

(***************************************************************************)
(* The connection singleton                                                *)
(***************************************************************************)
\* the drivers that were opened and are not closed
OpenDrivers == {d \in 1..Len(drivers) : drivers[d] = "open"}

\* C30: after any sequence of initialize, close and get_connection calls, a
\* driver that the driver property of the current singleton returns has not
\* been closed, and at most one driver is open at any time.
C30_DriverOpenAndUnique ==
    /\ (got.raised = "none" /\ got.current) => ~got.closed
    /\ Cardinality(OpenDrivers) <= 1

====
